---------------------------- MODULE Spec2Model ----------------------------
(***************************************************************************)
(* Hedgey: the analytics core of the CLI.  One run is modelled: the caller *)
(* collects lending rows (Aave) and perpetual positions (Hyperliquid)      *)
(* priced from one price table, then calls HedgeAnalyzer.analyze on them,  *)
(* or ExposureAnalyzer.analyze and GreeksCalculator.calculate on the       *)
(* lending rows alone.                                                     *)
(*                                                                         *)
(* A TypeScript `number` that the code only adds, subtracts, multiplies or *)
(* compares is an integer here (all inputs are integers); a `number` that  *)
(* comes out of a division is an exact fraction [num, den] in lowest terms *)
(* with den > 0.  Rounding of IEEE doubles is not modelled; the values a   *)
(* division by zero produces are: den = 0 with num = 1 (+Infinity), -1     *)
(* (-Infinity) or 0 (NaN).                                                 *)
(***************************************************************************)
EXTENDS Integers, Sequences, FiniteSets, TLC

VARIABLES
    prices,                 \* the symbol -> USD price table of this run
    aavePositions,          \* Position[] handed to the analyzer
    hyperliquidPositions,   \* HyperliquidPosition[] handed to the analyzer
    hedgeAnalysis,          \* the HedgeAnalysis returned, or NoAnalysis
    analysis,               \* the Analysis of ExposureAnalyzer, or NoAnalysis
    greeks,                 \* the Greeks returned, or NoGreeks
    pc,                     \* "collect" | "analyzed" | "greeks"
    cache,                  \* PriceService.cache: symbol -> [price, timestamp]
    now,                    \* Date.now(), in ms
    getPricesCall,          \* the current or last getPrices call of the instance
    fundingRatesCache,      \* HyperliquidService.fundingRatesCache: coin -> rate
    fundingCall,            \* the current or last getFundingRates call
    userCall,               \* the current or last getUserPositions call
    command,                \* the command of this process: check | greeks | hedge
    cmdPc,                  \* where the command is: idle, an await, done, exited
    fetched,                \* how many reserves and hedge positions it has got
    log                     \* the spinner, outro, fetch and exit calls so far

runVars == <<prices, aavePositions, hyperliquidPositions, hedgeAnalysis, analysis, greeks, pc>>
priceVars == <<cache, now, getPricesCall>>
hyperliquidVars == <<fundingRatesCache, fundingCall, userCall>>
commandVars == <<command, cmdPc, fetched, log>>
vars == <<runVars, priceVars, hyperliquidVars, commandVars>>

(***************************************************************************)
(* Bounds of the model.                                                    *)
(***************************************************************************)
\* Lending rows plus hedge positions handed to one analyze call.
MaxPositions == 3

(***************************************************************************)
(* Exact fractions.                                                        *)
(***************************************************************************)
Abs(x) == IF x < 0 THEN -x ELSE x

RECURSIVE Gcd(_, _)
Gcd(a, b) == IF b = 0 THEN a ELSE Gcd(b, a % b)

\* n / d for d # 0, in lowest terms with a positive denominator.
Rat(n, d) ==
    LET g == Gcd(Abs(n), Abs(d))
        s == IF d < 0 THEN -1 ELSE 1
    IN  [num |-> (s * n) \div g, den |-> Abs(d) \div g]

RInt(i) == [num |-> i, den |-> 1]
RZero == RInt(0)
RAdd(x, y) == Rat(x.num * y.den + y.num * x.den, x.den * y.den)
RSub(x, y) == Rat(x.num * y.den - y.num * x.den, x.den * y.den)
RMul(x, y) == Rat(x.num * y.num, x.den * y.den)
\* x / y for y # 0 (every division of HedgeAnalyzer is guarded).
RDiv(x, y) == Rat(x.num * y.den, x.den * y.num)
\* The IEEE quotient x / y of two finite numbers: a signed infinity or NaN when
\* y is zero.
Infinity == [num |-> 1, den |-> 0]
NegInfinity == [num |-> -1, den |-> 0]
NaN == [num |-> 0, den |-> 0]
\* Mutant: a quotient by zero is not a number.
JSDivUndefined(x, y) ==
    IF y.num # 0 THEN RDiv(x, y) ELSE NaN

JSDiv(x, y) ==
    IF y.num # 0 THEN RDiv(x, y)
    ELSE IF x.num > 0 THEN Infinity
    ELSE IF x.num < 0 THEN NegInfinity
    ELSE NaN
RLt(x, y) == x.num * y.den < y.num * x.den
RLe(x, y) == x.num * y.den <= y.num * x.den
RGt(x, y) == RLt(y, x)
RGe(x, y) == RLe(y, x)

RECURSIVE SumSeq(_)
SumSeq(s) == IF s = <<>> THEN 0 ELSE s[1] + SumSeq(Tail(s))

RECURSIVE RSumSeq(_)
RSumSeq(s) == IF s = <<>> THEN RZero ELSE RAdd(s[1], RSumSeq(Tail(s)))

Range(s) == {s[i] : i \in 1..Len(s)}

\* [...new Set(s)]: the first occurrence of each element, in order.
RECURSIVE UniqueSeq(_)
UniqueSeq(s) ==
    IF s = <<>> THEN <<>>
    ELSE LET r == UniqueSeq(SubSeq(s, 1, Len(s) - 1))
             x == s[Len(s)]
         IN  IF x \in Range(r) THEN r ELSE Append(r, x)

(***************************************************************************)
(* Inputs.                                                                 *)
(***************************************************************************)
\* GHO is a reserve no price source knows.
AaveSymbols == {"WETH", "wstETH", "WBTC", "GHO"}
HyperliquidCoins == {"ETH", "BTC", "WETH"}
Sides == {"LONG", "SHORT", "NEUTRAL"}

\* The price table of a run: the lending symbols the price service knows and
\* the exchange's mid prices; a symbol without an entry has no price.
MarketPrices ==
    [s \in {"WETH", "wstETH", "WBTC", "ETH", "BTC"} |->
        CASE s = "WETH" -> 380
          [] s = "wstETH" -> 420
          [] s = "WBTC" -> 900
          [] s = "ETH" -> 380
          [] s = "BTC" -> 900]
PriceTables == {MarketPrices}

\* The reserve's rates after convertRayToAPR, in percent.
ReserveRates ==
    [s \in AaveSymbols |->
        CASE s = "WETH" -> [supplyAPR |-> 2, borrowAPR |-> 3]
          [] s = "wstETH" -> [supplyAPR |-> 1, borrowAPR |-> 2]
          [] s = "WBTC" -> [supplyAPR |-> 1, borrowAPR |-> 4]
          [] s = "GHO" -> [supplyAPR |-> 5, borrowAPR |-> 7]]

\* The reserve's liquidation threshold, basis points / 10000; GHO is no collateral.
LiquidationThresholds ==
    [s \in AaveSymbols |->
        CASE s = "WETH" -> Rat(8300, 10000)
          [] s = "wstETH" -> Rat(8100, 10000)
          [] s = "WBTC" -> Rat(7800, 10000)
          [] s = "GHO" -> Rat(0, 10000)]

\* (supplied, borrowed) balances of one reserve row, in asset units.
Balances == {<<1, 0>>, <<0, 1>>, <<2, 1>>, <<1, 1>>}

RawReserves ==
    {[symbol |-> s, supplied |-> b[1], borrowed |-> b[2],
      supplyAPR |-> ReserveRates[s].supplyAPR,
      borrowAPR |-> ReserveRates[s].borrowAPR,
      liquidationThreshold |-> LiquidationThresholds[s]] :
        s \in AaveSymbols, b \in Balances}

\* Per coin: the account's leverage setting and the annualized funding in percent.
\* The WETH market reports no leverage (0) and pays no funding.
CoinSettings ==
    [c \in HyperliquidCoins |->
        CASE c = "ETH" -> [leverage |-> 2, fundingRateAnnualized |-> 10]
          [] c = "BTC" -> [leverage |-> 5, fundingRateAnnualized |-> -5]
          [] c = "WETH" -> [leverage |-> 0, fundingRateAnnualized |-> 0]]

\* (size in units, notionalValue in USD) of one open position.
HedgeSizes == {<<1, 76>>, <<3, 399>>}

HyperliquidInputs ==
    {[coin |-> c, size |-> z[1], side |-> sd, leverage |-> CoinSettings[c].leverage,
      unrealizedPnl |-> 0, notionalValue |-> z[2], fundingRate |-> 0,
      fundingRateAnnualized |-> CoinSettings[c].fundingRateAnnualized] :
        c \in HyperliquidCoins, sd \in Sides, z \in HedgeSizes}

(***************************************************************************)
(* PositionTransformer.transformReserve                                    *)
(***************************************************************************)
\* prices[s] || 0
PriceOf(table, s) == IF s \in DOMAIN table THEN table[s] ELSE 0

transformReserve(reserve, table) ==
    LET price == PriceOf(table, reserve.symbol)
    IN  [asset |-> reserve.symbol,
         supplied |-> reserve.supplied,
         borrowed |-> reserve.borrowed,
         suppliedUSD |-> reserve.supplied * price,
         borrowedUSD |-> reserve.borrowed * price,
         supplyAPR |-> reserve.supplyAPR,
         borrowAPR |-> reserve.borrowAPR,
         liquidationThreshold |-> reserve.liquidationThreshold,
         price |-> price]

(***************************************************************************)
(* HedgeAnalyzer                                                           *)
(***************************************************************************)
Direction(x) == IF x > 0 THEN "LONG" ELSE IF x < 0 THEN "SHORT" ELSE "NEUTRAL"

\* mapping[asset] || asset
normalizeAsset(asset) ==
    CASE asset = "WETH" -> "ETH"
      [] asset = "wstETH" -> "ETH"
      [] asset = "WBTC" -> "BTC"
      [] OTHER -> asset

getAllAssets(aave, hl) ==
    LET aaveAssets == [i \in 1..Len(aave) |-> normalizeAsset(aave[i].asset)]
        hlAssets == [i \in 1..Len(hl) |-> hl[i].coin]
    IN  UniqueSeq(aaveAssets \o hlAssets)

getAaveExposure(asset, positions) ==
    LET normalized == normalizeAsset(asset)
        Matches(pos) == normalizeAsset(pos.asset) = normalized
        net == SumSeq([i \in 1..Len(positions) |->
                   IF Matches(positions[i])
                   THEN positions[i].supplied - positions[i].borrowed ELSE 0])
        netUSD == SumSeq([i \in 1..Len(positions) |->
                   IF Matches(positions[i])
                   THEN positions[i].suppliedUSD - positions[i].borrowedUSD ELSE 0])
    IN  [net |-> net, netUSD |-> netUSD, direction |-> Direction(net)]

\* Mutant: a missing hedge reported with leverage 1.
NoHyperliquidExposureUnitLeverage ==
    [size |-> 0, sizeUSD |-> 0, side |-> "NEUTRAL", leverage |-> 1,
     unrealizedPnl |-> 0, fundingRate |-> 0, fundingRateAnnualized |-> 0]

NoHyperliquidExposure ==
    [size |-> 0, sizeUSD |-> 0, side |-> "NEUTRAL", leverage |-> 0,
     unrealizedPnl |-> 0, fundingRate |-> 0, fundingRateAnnualized |-> 0]

getHyperliquidExposure(asset, positions) ==
    LET found == {i \in 1..Len(positions) : positions[i].coin = asset}
    IN  IF found = {} THEN NoHyperliquidExposure
        ELSE LET position == positions[CHOOSE i \in found : \A j \in found : i <= j]
             IN  [size |-> position.size,
                  sizeUSD |-> position.notionalValue,
                  side |-> position.side,
                  leverage |-> position.leverage,
                  unrealizedPnl |-> position.unrealizedPnl,
                  fundingRate |-> position.fundingRate,
                  fundingRateAnnualized |-> position.fundingRateAnnualized]

getSignedSize(exposure) ==
    IF exposure.side = "SHORT" THEN -exposure.size
    ELSE IF exposure.side = "LONG" THEN exposure.size
    ELSE 0

getSignedSizeUSD(exposure) ==
    IF exposure.side = "SHORT" THEN -exposure.sizeUSD
    ELSE IF exposure.side = "LONG" THEN exposure.sizeUSD
    ELSE 0

\* Mutant: the ratio is computed whatever the side of the hedge.
calculateHedgeRatioAnySide(aaveUSD, hyperliquidUSD, hyperliquidSide) ==
    IF aaveUSD = 0 THEN RZero
    ELSE RMul(Rat(hyperliquidUSD, Abs(aaveUSD)), RInt(100))

\* Mutant: the superseded variant that caps the ratio at 100.
calculateHedgeRatioCapped(aaveUSD, hyperliquidUSD, hyperliquidSide) ==
    LET ratio == IF aaveUSD = 0 THEN RZero
                 ELSE IF \/ aaveUSD > 0 /\ hyperliquidSide = "SHORT"
                         \/ aaveUSD < 0 /\ hyperliquidSide = "LONG"
                 THEN RMul(Rat(hyperliquidUSD, Abs(aaveUSD)), RInt(100))
                 ELSE RZero
    IN  IF RGt(ratio, RInt(100)) THEN RInt(100) ELSE ratio

calculateHedgeRatio(aaveUSD, hyperliquidUSD, hyperliquidSide) ==
    IF aaveUSD = 0 THEN RZero
    ELSE LET aaveDirection == IF aaveUSD > 0 THEN "LONG" ELSE "SHORT"
         IN  IF aaveDirection = "LONG" /\ hyperliquidSide = "SHORT"
             THEN RMul(Rat(hyperliquidUSD, Abs(aaveUSD)), RInt(100))
             ELSE IF aaveDirection = "SHORT" /\ hyperliquidSide = "LONG"
             THEN RMul(Rat(hyperliquidUSD, Abs(aaveUSD)), RInt(100))
             ELSE RZero

analyzeAsset(asset, aave, hl, table) ==
    LET aaveExposure == getAaveExposure(asset, aave)
        hyperliquidExposure == getHyperliquidExposure(asset, hl)
        netAmount == aaveExposure.net + getSignedSize(hyperliquidExposure)
        netAmountUSD == aaveExposure.netUSD + getSignedSizeUSD(hyperliquidExposure)
    IN  [asset |-> asset,
         aaveExposure |-> [net |-> aaveExposure.net,
                           netUSD |-> aaveExposure.netUSD,
                           direction |-> Direction(aaveExposure.net)],
         hyperliquidExposure |-> hyperliquidExposure,
         netExposure |-> [amount |-> netAmount,
                          amountUSD |-> netAmountUSD,
                          direction |-> Direction(netAmount)],
         hedgeRatio |-> calculateHedgeRatio(aaveExposure.netUSD,
                                            hyperliquidExposure.sizeUSD,
                                            hyperliquidExposure.side),
         price |-> PriceOf(table, asset)]

\* Mutant: the superseded variant that sums |netExposure.amountUSD|.
calculateTotalsAbsNet(byAsset, aave, hl) ==
    LET aaveTotalUSD == SumSeq([i \in 1..Len(byAsset) |->
                            Abs(byAsset[i].aaveExposure.netUSD)])
        hyperliquidTotalUSD == SumSeq([i \in 1..Len(byAsset) |->
                            Abs(byAsset[i].hyperliquidExposure.sizeUSD)])
        netExposureUSD == SumSeq([i \in 1..Len(byAsset) |->
                            Abs(byAsset[i].netExposure.amountUSD)])
        aaveSupplied == SumSeq([i \in 1..Len(aave) |-> aave[i].suppliedUSD])
        aaveBorrowed == SumSeq([i \in 1..Len(aave) |-> aave[i].borrowedUSD])
        aaveEquityUSD == aaveSupplied - aaveBorrowed
        hyperliquidMarginUSD == RSumSeq([i \in 1..Len(hl) |->
                            IF hl[i].leverage > 0
                            THEN Rat(hl[i].notionalValue, hl[i].leverage)
                            ELSE RZero])
    IN  [aaveTotalUSD |-> aaveTotalUSD,
         aaveEquityUSD |-> aaveEquityUSD,
         hyperliquidTotalUSD |-> hyperliquidTotalUSD,
         hyperliquidMarginUSD |-> hyperliquidMarginUSD,
         totalCapitalUSD |-> RAdd(RInt(aaveEquityUSD), hyperliquidMarginUSD),
         netExposureUSD |-> netExposureUSD,
         overallHedgeRatio |->
             IF aaveTotalUSD > 0
             THEN RMul(Rat(hyperliquidTotalUSD, aaveTotalUSD), RInt(100))
             ELSE RZero]

\* Mutant: a position without positive leverage is margined at its full notional.
calculateTotalsFullMargin(byAsset, aave, hl) ==
    LET aaveTotalUSD == SumSeq([i \in 1..Len(byAsset) |->
                            Abs(byAsset[i].aaveExposure.netUSD)])
        hyperliquidTotalUSD == SumSeq([i \in 1..Len(byAsset) |->
                            Abs(byAsset[i].hyperliquidExposure.sizeUSD)])
        netExposureUSD == SumSeq([i \in 1..Len(byAsset) |->
                            byAsset[i].netExposure.amountUSD])
        aaveSupplied == SumSeq([i \in 1..Len(aave) |-> aave[i].suppliedUSD])
        aaveBorrowed == SumSeq([i \in 1..Len(aave) |-> aave[i].borrowedUSD])
        aaveEquityUSD == aaveSupplied - aaveBorrowed
        hyperliquidMarginUSD == RSumSeq([i \in 1..Len(hl) |->
                            IF hl[i].leverage > 0
                            THEN Rat(hl[i].notionalValue, hl[i].leverage)
                            ELSE RInt(hl[i].notionalValue)])
    IN  [aaveTotalUSD |-> aaveTotalUSD,
         aaveEquityUSD |-> aaveEquityUSD,
         hyperliquidTotalUSD |-> hyperliquidTotalUSD,
         hyperliquidMarginUSD |-> hyperliquidMarginUSD,
         totalCapitalUSD |-> RAdd(RInt(aaveEquityUSD), hyperliquidMarginUSD),
         netExposureUSD |-> netExposureUSD,
         overallHedgeRatio |->
             IF aaveTotalUSD > 0
             THEN RMul(Rat(hyperliquidTotalUSD, aaveTotalUSD), RInt(100))
             ELSE RZero]

\* byAsset is the sequence of the object's values in insertion order; the key of
\* an entry is its asset field.
calculateTotals(byAsset, aave, hl) ==
    LET aaveTotalUSD == SumSeq([i \in 1..Len(byAsset) |->
                            Abs(byAsset[i].aaveExposure.netUSD)])
        hyperliquidTotalUSD == SumSeq([i \in 1..Len(byAsset) |->
                            Abs(byAsset[i].hyperliquidExposure.sizeUSD)])
        netExposureUSD == SumSeq([i \in 1..Len(byAsset) |->
                            byAsset[i].netExposure.amountUSD])
        aaveSupplied == SumSeq([i \in 1..Len(aave) |-> aave[i].suppliedUSD])
        aaveBorrowed == SumSeq([i \in 1..Len(aave) |-> aave[i].borrowedUSD])
        aaveEquityUSD == aaveSupplied - aaveBorrowed
        hyperliquidMarginUSD == RSumSeq([i \in 1..Len(hl) |->
                            IF hl[i].leverage > 0
                            THEN Rat(hl[i].notionalValue, hl[i].leverage)
                            ELSE RZero])
    IN  [aaveTotalUSD |-> aaveTotalUSD,
         aaveEquityUSD |-> aaveEquityUSD,
         hyperliquidTotalUSD |-> hyperliquidTotalUSD,
         hyperliquidMarginUSD |-> hyperliquidMarginUSD,
         totalCapitalUSD |-> RAdd(RInt(aaveEquityUSD), hyperliquidMarginUSD),
         netExposureUSD |-> netExposureUSD,
         overallHedgeRatio |->
             IF aaveTotalUSD > 0
             THEN RMul(Rat(hyperliquidTotalUSD, aaveTotalUSD), RInt(100))
             ELSE RZero]

\* Mutant: a ratio of exactly 20 counts as partially hedged.
BucketFrom20(exposure) ==
    IF exposure.aaveExposure.netUSD = 0 THEN "none"
    ELSE IF RGe(exposure.hedgeRatio, RInt(95)) /\ RLe(exposure.hedgeRatio, RInt(105))
    THEN "perfectlyHedged"
    ELSE IF RGt(exposure.hedgeRatio, RInt(105)) THEN "overHedged"
    ELSE IF RGe(exposure.hedgeRatio, RInt(20)) THEN "partiallyHedged"
    ELSE "unhedged"

\* The bucket the if-chain pushes an entry to, "none" for a skipped entry.
Bucket(exposure) ==
    IF exposure.aaveExposure.netUSD = 0 THEN "none"
    ELSE IF RGe(exposure.hedgeRatio, RInt(95)) /\ RLe(exposure.hedgeRatio, RInt(105))
    THEN "perfectlyHedged"
    ELSE IF RGt(exposure.hedgeRatio, RInt(105)) THEN "overHedged"
    ELSE IF RGt(exposure.hedgeRatio, RInt(20)) THEN "partiallyHedged"
    ELSE "unhedged"

categorizeEffectiveness(byAsset) ==
    LET Pushed(b) ==
            LET hit == SelectSeq(byAsset, LAMBDA e : Bucket(e) = b)
            IN  [i \in 1..Len(hit) |-> hit[i].asset]
    IN  [perfectlyHedged |-> Pushed("perfectlyHedged"),
         partiallyHedged |-> Pushed("partiallyHedged"),
         unhedged |-> Pushed("unhedged"),
         overHedged |-> Pushed("overHedged")]

calculateAaveNetAPY(positions) ==
    LET totalSuppliedUSD == SumSeq([i \in 1..Len(positions) |-> positions[i].suppliedUSD])
        totalBorrowedUSD == SumSeq([i \in 1..Len(positions) |-> positions[i].borrowedUSD])
        weightedSupplyAPY == SumSeq([i \in 1..Len(positions) |->
                                positions[i].suppliedUSD * positions[i].supplyAPR])
        weightedBorrowAPY == SumSeq([i \in 1..Len(positions) |->
                                positions[i].borrowedUSD * positions[i].borrowAPR])
        netEquity == totalSuppliedUSD - totalBorrowedUSD
        totalSupplyIncome == Rat(weightedSupplyAPY, 100)
        totalBorrowCost == Rat(weightedBorrowAPY, 100)
        netIncome == RSub(totalSupplyIncome, totalBorrowCost)
    IN  IF totalSuppliedUSD = 0 /\ totalBorrowedUSD = 0 THEN RZero
        ELSE IF netEquity = 0 THEN RZero
        ELSE RMul(RDiv(netIncome, RInt(netEquity)), RInt(100))

\* Mutant: funding counted as income whatever the side.
effectiveFundingAPYUnsigned(position) == position.fundingRateAnnualized

effectiveFundingAPY(position) ==
    IF position.side = "SHORT" THEN position.fundingRateAnnualized
    ELSE -position.fundingRateAnnualized

calculateHyperliquidFundingAPY(positions) ==
    LET totalNotional == SumSeq([i \in 1..Len(positions) |-> positions[i].notionalValue])
        weightedFundingAPY == SumSeq([i \in 1..Len(positions) |->
                    positions[i].notionalValue * effectiveFundingAPY(positions[i])])
    IN  IF totalNotional = 0 THEN RZero
        ELSE Rat(weightedFundingAPY, totalNotional)

calculateCombinedNetAPY(aave, hl) ==
    LET aaveSuppliedUSD == SumSeq([i \in 1..Len(aave) |-> aave[i].suppliedUSD])
        aaveBorrowedUSD == SumSeq([i \in 1..Len(aave) |-> aave[i].borrowedUSD])
        weightedAaveAPY == SumSeq([i \in 1..Len(aave) |->
                    aave[i].suppliedUSD * aave[i].supplyAPR
                  - aave[i].borrowedUSD * aave[i].borrowAPR])
        aaveEquity == aaveSuppliedUSD - aaveBorrowedUSD
        aaveNetAPY == IF aaveEquity > 0 THEN Rat(weightedAaveAPY, aaveEquity) ELSE RZero
        hlNotional == SumSeq([i \in 1..Len(hl) |-> hl[i].notionalValue])
        weightedHLFunding == SumSeq([i \in 1..Len(hl) |->
                    hl[i].notionalValue * effectiveFundingAPY(hl[i])])
        totalCapital == aaveEquity + hlNotional
        weightedTotal == RAdd(RMul(RInt(aaveEquity), aaveNetAPY), RInt(weightedHLFunding))
    IN  IF totalCapital <= 0 THEN RZero
        ELSE RDiv(weightedTotal, RInt(totalCapital))

analyze(aave, hl, table) ==
    LET allAssets == getAllAssets(aave, hl)
        byAsset == [i \in 1..Len(allAssets) |-> analyzeAsset(allAssets[i], aave, hl, table)]
    IN  [byAsset |-> byAsset,
         totals |-> calculateTotals(byAsset, aave, hl),
         aaveNetAPY |-> calculateAaveNetAPY(aave),
         hyperliquidFundingAPY |-> calculateHyperliquidFundingAPY(hl),
         combinedNetAPY |-> calculateCombinedNetAPY(aave, hl),
         effectiveness |-> categorizeEffectiveness(byAsset)]

(***************************************************************************)
(* ExposureAnalyzer                                                        *)
(***************************************************************************)
\* Mutant: rows grouped by their canonical symbol.
aggregateByAssetNormalized(positions) ==
    LET keys == UniqueSeq([i \in 1..Len(positions) |-> normalizeAsset(positions[i].asset)])
        Sum(k, F(_)) == SumSeq([i \in 1..Len(positions) |->
                            IF normalizeAsset(positions[i].asset) = k
                            THEN F(positions[i]) ELSE 0])
        Entry(k) ==
            LET supplied == Sum(k, LAMBDA p : p.supplied)
                borrowed == Sum(k, LAMBDA p : p.borrowed)
                suppliedUSD == Sum(k, LAMBDA p : p.suppliedUSD)
                borrowedUSD == Sum(k, LAMBDA p : p.borrowedUSD)
            IN  [asset |-> k,
                 supplied |-> supplied, borrowed |-> borrowed,
                 suppliedUSD |-> suppliedUSD, borrowedUSD |-> borrowedUSD,
                 net |-> supplied - borrowed,
                 netUSD |-> suppliedUSD - borrowedUSD,
                 direction |-> Direction(supplied - borrowed)]
    IN  [i \in 1..Len(keys) |-> Entry(keys[i])]

\* The aggregated object as the sequence of its values in insertion order; the
\* key of an entry is its asset field.
aggregateByAsset(positions) ==
    LET keys == UniqueSeq([i \in 1..Len(positions) |-> positions[i].asset])
        Sum(k, F(_)) == SumSeq([i \in 1..Len(positions) |->
                            IF positions[i].asset = k THEN F(positions[i]) ELSE 0])
        Entry(k) ==
            LET supplied == Sum(k, LAMBDA p : p.supplied)
                borrowed == Sum(k, LAMBDA p : p.borrowed)
                suppliedUSD == Sum(k, LAMBDA p : p.suppliedUSD)
                borrowedUSD == Sum(k, LAMBDA p : p.borrowedUSD)
            IN  [asset |-> k,
                 supplied |-> supplied, borrowed |-> borrowed,
                 suppliedUSD |-> suppliedUSD, borrowedUSD |-> borrowedUSD,
                 net |-> supplied - borrowed,
                 netUSD |-> suppliedUSD - borrowedUSD,
                 direction |-> Direction(supplied - borrowed)]
    IN  [i \in 1..Len(keys) |-> Entry(keys[i])]

calculateTotalSupplied(positions) ==
    SumSeq([i \in 1..Len(positions) |-> positions[i].suppliedUSD])

calculateTotalBorrowed(positions) ==
    SumSeq([i \in 1..Len(positions) |-> positions[i].borrowedUSD])

\* Mutant: collateral counted at its full value.
calculateHealthFactorUnweighted(positions) ==
    LET totalCollateral == SumSeq([i \in 1..Len(positions) |-> positions[i].suppliedUSD])
        totalDebt == SumSeq([i \in 1..Len(positions) |-> positions[i].borrowedUSD])
    IN  IF totalDebt = 0 THEN Infinity
        ELSE RDiv(RInt(totalCollateral), RInt(totalDebt))

calculateHealthFactor(positions) ==
    LET totalCollateral == RSumSeq([i \in 1..Len(positions) |->
                RMul(RInt(positions[i].suppliedUSD), positions[i].liquidationThreshold)])
        totalDebt == SumSeq([i \in 1..Len(positions) |-> positions[i].borrowedUSD])
    IN  IF totalDebt = 0 THEN Infinity
        ELSE RDiv(totalCollateral, RInt(totalDebt))

\* Mutant: leverage 1 for any book without positive net value.
calculateLeverageFloored(totalSuppliedUSD, netValueUSD) ==
    IF netValueUSD <= 0 THEN RInt(1)
    ELSE Rat(totalSuppliedUSD, netValueUSD)

calculateLeverage(totalSuppliedUSD, netValueUSD) ==
    IF netValueUSD = 0 THEN RInt(1)
    ELSE Rat(totalSuppliedUSD, netValueUSD)

calculateUtilizationRate(totalBorrowedUSD, totalSuppliedUSD) ==
    IF totalSuppliedUSD = 0 THEN RZero
    ELSE RMul(Rat(totalBorrowedUSD, totalSuppliedUSD), RInt(100))

\* Mutant: a symbol with either a supply or a debt counts as a loop.
detectLoopsEitherSide(positions) ==
    LET keys == UniqueSeq([i \in 1..Len(positions) |-> positions[i].asset])
        Sum(k, F(_)) == SumSeq([i \in 1..Len(positions) |->
                            IF positions[i].asset = k THEN F(positions[i]) ELSE 0])
        data == [i \in 1..Len(keys) |->
                    [asset |-> keys[i],
                     supplied |-> Sum(keys[i], LAMBDA p : p.supplied),
                     borrowed |-> Sum(keys[i], LAMBDA p : p.borrowed)]]
        looped == SelectSeq(data, LAMBDA d : d.supplied > 0 \/ d.borrowed > 0)
    IN  [i \in 1..Len(looped) |->
            [asset |-> looped[i].asset,
             supplied |-> looped[i].supplied,
             borrowed |-> looped[i].borrowed,
             effectiveLeverage |->
                 JSDiv(RInt(looped[i].supplied),
                       RInt(looped[i].supplied - looped[i].borrowed))]]

\* assetMap.entries() is the sequence of the raw symbols in insertion order.
detectLoops(positions) ==
    LET keys == UniqueSeq([i \in 1..Len(positions) |-> positions[i].asset])
        Sum(k, F(_)) == SumSeq([i \in 1..Len(positions) |->
                            IF positions[i].asset = k THEN F(positions[i]) ELSE 0])
        data == [i \in 1..Len(keys) |->
                    [asset |-> keys[i],
                     supplied |-> Sum(keys[i], LAMBDA p : p.supplied),
                     borrowed |-> Sum(keys[i], LAMBDA p : p.borrowed)]]
        looped == SelectSeq(data, LAMBDA d : d.supplied > 0 /\ d.borrowed > 0)
    IN  [i \in 1..Len(looped) |->
            [asset |-> looped[i].asset,
             supplied |-> looped[i].supplied,
             borrowed |-> looped[i].borrowed,
             effectiveLeverage |->
                 JSDiv(RInt(looped[i].supplied),
                       RInt(looped[i].supplied - looped[i].borrowed))]]

\* Mutant: the supply income alone, the borrow cost left out.
calculateNetAPYGross(positions, netValueUSD) ==
    LET totalSupplyIncome == RSumSeq([i \in 1..Len(positions) |->
                RMul(RInt(positions[i].suppliedUSD), Rat(positions[i].supplyAPR, 100))])
    IN  IF netValueUSD = 0 THEN RZero
        ELSE RMul(RDiv(totalSupplyIncome, RInt(netValueUSD)), RInt(100))

calculateNetAPY(positions, netValueUSD) ==
    LET totalSupplyIncome == RSumSeq([i \in 1..Len(positions) |->
                RMul(RInt(positions[i].suppliedUSD), Rat(positions[i].supplyAPR, 100))])
        totalBorrowCost == RSumSeq([i \in 1..Len(positions) |->
                RMul(RInt(positions[i].borrowedUSD), Rat(positions[i].borrowAPR, 100))])
        netIncome == RSub(totalSupplyIncome, totalBorrowCost)
    IN  IF netValueUSD = 0 THEN RZero
        ELSE RMul(RDiv(netIncome, RInt(netValueUSD)), RInt(100))

\* ExposureAnalyzer.analyze
analyzeExposure(positions) ==
    LET totalSuppliedUSD == calculateTotalSupplied(positions)
        totalBorrowedUSD == calculateTotalBorrowed(positions)
        netValueUSD == totalSuppliedUSD - totalBorrowedUSD
    IN  [totalSuppliedUSD |-> totalSuppliedUSD,
         totalBorrowedUSD |-> totalBorrowedUSD,
         netValueUSD |-> netValueUSD,
         healthFactor |-> calculateHealthFactor(positions),
         leverage |-> calculateLeverage(totalSuppliedUSD, netValueUSD),
         utilizationRate |-> calculateUtilizationRate(totalBorrowedUSD, totalSuppliedUSD),
         netAPY |-> calculateNetAPY(positions, netValueUSD),
         byAsset |-> aggregateByAsset(positions),
         loops |-> detectLoops(positions)]

(***************************************************************************)
(* GreeksCalculator                                                        *)
(***************************************************************************)
RATE_INCREASE_PERCENT == Rat(1, 100)
DAYS_PER_YEAR == 365
PERCENT_TO_DECIMAL == 100

\* Mutant: rows of wrapped symbols merged under the canonical symbol.
calculateDeltaNormalized(positions) ==
    LET keys == UniqueSeq([i \in 1..Len(positions) |-> normalizeAsset(positions[i].asset)])
        NetOf(p) == p.supplied - p.borrowed
        Sum(k, F(_)) == SumSeq([i \in 1..Len(positions) |->
                            IF normalizeAsset(positions[i].asset) = k
                            THEN F(positions[i]) ELSE 0])
    IN  [totalDeltaUSD |-> SumSeq([i \in 1..Len(positions) |->
                               NetOf(positions[i]) * positions[i].price]),
         byAsset |-> [i \in 1..Len(keys) |->
                         [asset |-> keys[i],
                          net |-> Sum(keys[i], NetOf),
                          deltaUSD |-> Sum(keys[i], LAMBDA p : NetOf(p) * p.price)]]]

\* byAsset is the sequence of the object's values in insertion order, each with
\* its key in the asset field.
calculateDelta(positions) ==
    LET keys == UniqueSeq([i \in 1..Len(positions) |-> positions[i].asset])
        NetOf(p) == p.supplied - p.borrowed
        Sum(k, F(_)) == SumSeq([i \in 1..Len(positions) |->
                            IF positions[i].asset = k THEN F(positions[i]) ELSE 0])
    IN  [totalDeltaUSD |-> SumSeq([i \in 1..Len(positions) |->
                               NetOf(positions[i]) * positions[i].price]),
         byAsset |-> [i \in 1..Len(keys) |->
                         [asset |-> keys[i],
                          net |-> Sum(keys[i], NetOf),
                          deltaUSD |-> Sum(keys[i], LAMBDA p : NetOf(p) * p.price)]]]

\* Mutant: leverage reported as at least 1.
calculateGammaAtLeastOne(leverage) ==
    [leverage |-> IF RLt(leverage, RInt(1)) THEN RInt(1) ELSE leverage]

calculateGamma(leverage) == [leverage |-> leverage]

\* Mutant: the rate rise charged on the debt net of the supply.
calculateVegaNetDebt(positions) ==
    LET totalBorrowedUSD == SumSeq([i \in 1..Len(positions) |->
                                positions[i].borrowedUSD - positions[i].suppliedUSD])
        rateImpactYearly == RMul(RInt(totalBorrowedUSD), RATE_INCREASE_PERCENT)
    IN  [rateImpactMonthly |-> RDiv(rateImpactYearly, RInt(12)),
         rateImpactYearly |-> rateImpactYearly]

calculateVega(positions) ==
    LET totalBorrowedUSD == SumSeq([i \in 1..Len(positions) |-> positions[i].borrowedUSD])
        rateImpactYearly == RMul(RInt(totalBorrowedUSD), RATE_INCREASE_PERCENT)
    IN  [rateImpactMonthly |-> RDiv(rateImpactYearly, RInt(12)),
         rateImpactYearly |-> rateImpactYearly]

\* Mutant: the month projected over 31 days.
calculateThetaLongMonth(positions) ==
    LET dailySupplyInterest == RSumSeq([i \in 1..Len(positions) |->
                Rat(positions[i].suppliedUSD * positions[i].supplyAPR,
                    DAYS_PER_YEAR * PERCENT_TO_DECIMAL)])
        dailyBorrowInterest == RSumSeq([i \in 1..Len(positions) |->
                Rat(positions[i].borrowedUSD * positions[i].borrowAPR,
                    DAYS_PER_YEAR * PERCENT_TO_DECIMAL)])
        dailyNet == RSub(dailySupplyInterest, dailyBorrowInterest)
    IN  [dailyNet |-> dailyNet,
         monthlyNet |-> RMul(dailyNet, RInt(31)),
         yearlyNet |-> RMul(dailyNet, RInt(DAYS_PER_YEAR))]

calculateTheta(positions) ==
    LET dailySupplyInterest == RSumSeq([i \in 1..Len(positions) |->
                Rat(positions[i].suppliedUSD * positions[i].supplyAPR,
                    DAYS_PER_YEAR * PERCENT_TO_DECIMAL)])
        dailyBorrowInterest == RSumSeq([i \in 1..Len(positions) |->
                Rat(positions[i].borrowedUSD * positions[i].borrowAPR,
                    DAYS_PER_YEAR * PERCENT_TO_DECIMAL)])
        dailyNet == RSub(dailySupplyInterest, dailyBorrowInterest)
    IN  [dailyNet |-> dailyNet,
         monthlyNet |-> RMul(dailyNet, RInt(30)),
         yearlyNet |-> RMul(dailyNet, RInt(DAYS_PER_YEAR))]

calculate(positions, a) ==
    [delta |-> calculateDelta(positions),
     gamma |-> calculateGamma(a.leverage),
     vega |-> calculateVega(positions),
     theta |-> calculateTheta(positions)]

(***************************************************************************)
(* PriceService: one instance, its calls one after the other.  A call      *)
(* reads the cache when it starts and, if it sends a request, writes the   *)
(* cache when the response arrives; the clock runs in between.             *)
(***************************************************************************)
\* The clock runs up to MaxNow ms, in steps of ClockSteps.
MaxNow == 100000
ClockSteps == {20000, 40000}

CACHE_EXPIRY == 60000

\* GHO has no CoinGecko id.
PriceSymbols == {"WETH", "WBTC", "GHO"}
SymbolLists == {<<"WETH">>, <<"GHO">>, <<"WETH", "GHO">>, <<"WBTC", "WETH", "WBTC">>}
Quotes == {380, 395}

\* SYMBOL_TO_COINGECKO_ID[s], "" for undefined.
CoinGeckoId(s) ==
    CASE s = "WETH" -> "weth"
      [] s = "WBTC" -> "wrapped-bitcoin"
      [] s = "wstETH" -> "wrapped-steth"
      [] OTHER -> ""

\* A Map or object as a function on its keys.
EmptyMap == [k \in {} |-> 0]
Put(m, k, v) == [x \in DOMAIN m \cup {k} |-> IF x = k THEN v ELSE m[x]]

\* Mutant: an entry of exactly CACHE_EXPIRY ms still counts as fresh.
getCachedPriceInclusive(c, t, symbol) ==
    IF symbol \in DOMAIN c /\ t - c[symbol].timestamp <= CACHE_EXPIRY
    THEN [hit |-> TRUE, price |-> c[symbol].price]
    ELSE [hit |-> FALSE, price |-> 0]

\* The cached price, hit = FALSE for null.
getCachedPrice(c, t, symbol) ==
    IF symbol \in DOMAIN c /\ t - c[symbol].timestamp < CACHE_EXPIRY
    THEN [hit |-> TRUE, price |-> c[symbol].price]
    ELSE [hit |-> FALSE, price |-> 0]

setCachedPrice(c, t, symbol, price) ==
    Put(c, symbol, [price |-> price, timestamp |-> t])

NoCall == [state |-> "none"]

\* The loop of lines 61-68 over toFetch: the cache and the prices after it.
RECURSIVE storePrices(_, _, _, _, _)
storePrices(c, found, toFetch, response, t) ==
    IF toFetch = <<>> THEN [cache |-> c, prices |-> found]
    ELSE LET symbol == Head(toFetch)
             id == CoinGeckoId(symbol)
         IN  IF id # "" /\ id \in DOMAIN response
             THEN storePrices(setCachedPrice(c, t, symbol, response[id]),
                              Put(found, symbol, response[id]),
                              Tail(toFetch), response, t)
             ELSE storePrices(c, found, Tail(toFetch), response, t)

\* The responses CoinGecko can give to a request for ids: a quote for some.
Responses(ids) ==
    UNION {[answered -> Quotes] : answered \in SUBSET Range(ids)}

\* getPrices up to the request (lines 27-48): returns at once when nothing is
\* to fetch or nothing to fetch has an id.
GetPrices ==
    /\ getPricesCall.state # "awaiting"
    /\ \E symbols \in SymbolLists :
           LET uniqueSymbols == UniqueSeq(symbols)
               cached == SelectSeq(uniqueSymbols,
                             LAMBDA s : getCachedPrice(cache, now, s).hit)
               fromCache == [s \in Range(cached) |-> getCachedPrice(cache, now, s).price]
               toFetch == SelectSeq(uniqueSymbols,
                             LAMBDA s : ~getCachedPrice(cache, now, s).hit)
               allIds == [i \in 1..Len(toFetch) |-> CoinGeckoId(toFetch[i])]
               ids == SelectSeq(allIds, LAMBDA id : id # "")
           IN  getPricesCall' =
                   [state |-> IF toFetch = <<>> \/ ids = <<>>
                              THEN "returned" ELSE "awaiting",
                    symbols |-> symbols,
                    startedAt |-> now,
                    cacheAtStart |-> cache,
                    toFetch |-> toFetch,
                    ids |-> ids,
                    requested |-> ~(toFetch = <<>> \/ ids = <<>>),
                    failed |-> FALSE,
                    prices |-> fromCache]
    /\ UNCHANGED <<cache, now>>
    /\ UNCHANGED <<runVars, hyperliquidVars, commandVars>>

\* The response arrives (lines 59-68).
ReceivePrices ==
    /\ getPricesCall.state = "awaiting"
    /\ \E response \in Responses(getPricesCall.ids) :
           LET stored == storePrices(cache, getPricesCall.prices,
                                     getPricesCall.toFetch, response, now)
           IN  /\ cache' = stored.cache
               /\ getPricesCall' =
                      [getPricesCall EXCEPT !.state = "returned", !.prices = stored.prices]
    /\ UNCHANGED now
    /\ UNCHANGED <<runVars, hyperliquidVars, commandVars>>

\* The request fails (lines 69-71).
FailPrices ==
    /\ getPricesCall.state = "awaiting"
    /\ getPricesCall' = [getPricesCall EXCEPT !.state = "returned", !.failed = TRUE]
    /\ UNCHANGED <<cache, now>>
    /\ UNCHANGED <<runVars, hyperliquidVars, commandVars>>

AdvanceClock ==
    /\ \E d \in ClockSteps :
           /\ now + d <= MaxNow
           /\ now' = now + d
    /\ UNCHANGED <<cache, getPricesCall>>
    /\ UNCHANGED <<runVars, hyperliquidVars, commandVars>>

PriceNext == GetPrices \/ ReceivePrices \/ FailPrices \/ AdvanceClock

(***************************************************************************)
(* HyperliquidService: one instance, its calls one after the other (a      *)
(* command calls getUserPositions once).  getUserPositions awaits the      *)
(* clearinghouse request and getFundingRates together.                     *)
(***************************************************************************)
\* Hourly funding rates as the exchange quotes them.
FundingQuotes == {Rat(1, 80000), Rat(-1, 160000), RZero}

\* metaAndAssetCtxs responses: the universe and the contexts, which may be
\* fewer than the universe.
FundingResponses ==
    {[universe |-> <<"ETH", "BTC">>, assetCtxs |-> <<[funding |-> a], [funding |-> b]>>] :
        a, b \in FundingQuotes}
    \cup {[universe |-> <<"ETH", "BTC">>, assetCtxs |-> <<[funding |-> a]>>] :
        a \in FundingQuotes}
    \cup {[universe |-> <<>>, assetCtxs |-> <<>>]}

\* Raw positions: szi is the signed size, 0 for a closed position.
RawPositions ==
    {[coin |-> c, szi |-> z, entryPx |-> 100, leverage |-> 2, unrealizedPnl |-> 0] :
        c \in {"ETH", "BTC"}, z \in {-3, 0, 1}}
ClearinghouseStates ==
    {[assetPositions |-> <<>>], [marginSummary |-> "0"]}
    \cup {[assetPositions |-> <<a>>] : a \in RawPositions}
    \cup {[assetPositions |-> <<a, b>>] :
              a \in {r \in RawPositions : r.coin = "ETH"},
              b \in {r \in RawPositions : r.coin = "BTC"}}

\* What a failed request throws: instances of Error.
RequestErrors ==
    {[isError |-> TRUE, message |-> "Request timed out"],
     [isError |-> TRUE, message |-> "Request failed with status code 500"]}

\* Mutant: the cache is never taken as filled.
HasFundingRatesNever(c) == FALSE

\* Object.keys(this.fundingRatesCache).length > 0
HasFundingRates(c) == Cardinality(DOMAIN c) > 0

\* The loop of lines 117-123; a later entry of a name overwrites an earlier one.
RECURSIVE ratesFrom(_, _, _)
ratesFrom(universe, assetCtxs, i) ==
    IF i > Len(universe) THEN EmptyMap
    ELSE LET later == ratesFrom(universe, assetCtxs, i + 1)
         IN  IF i <= Len(assetCtxs) /\ universe[i] \notin DOMAIN later
             THEN Put(later, universe[i], assetCtxs[i].funding)
             ELSE later

transformPosition(raw, fundingRates) ==
    LET size == raw.szi
        entryPrice == raw.entryPx
        fundingRate == IF raw.coin \in DOMAIN fundingRates /\ fundingRates[raw.coin] # RZero
                       THEN fundingRates[raw.coin] ELSE RZero
    IN  [coin |-> raw.coin,
         size |-> Abs(size),
         side |-> IF size > 0 THEN "LONG" ELSE IF size < 0 THEN "SHORT" ELSE "NEUTRAL",
         entryPrice |-> entryPrice,
         leverage |-> raw.leverage,
         unrealizedPnl |-> raw.unrealizedPnl,
         notionalValue |-> Abs(size) * entryPrice,
         fundingRate |-> fundingRate,
         fundingRateAnnualized |-> RMul(fundingRate, RInt(24 * 365 * 100))]

\* Mutant: closed positions are returned too.
KeepPositionAlways(pos) == TRUE

\* .filter(pos => pos.size !== 0)
KeepPosition(pos) == pos.size # 0

\* Lines 72-78, once both requests have answered.
positionsOf(clearinghouse, fundingRates) ==
    IF "assetPositions" \notin DOMAIN clearinghouse \/ clearinghouse.assetPositions = <<>>
    THEN <<>>
    ELSE SelectSeq([i \in 1..Len(clearinghouse.assetPositions) |->
                       transformPosition(clearinghouse.assetPositions[i], fundingRates)],
                   KeepPosition)

\* getFundingRates up to its request (lines 100-104).
startFundingCall ==
    IF HasFundingRates(fundingRatesCache)
    THEN [state |-> "returned", requested |-> FALSE, failed |-> FALSE,
          cacheAtStart |-> fundingRatesCache, result |-> fundingRatesCache]
    ELSE [state |-> "awaiting", requested |-> TRUE, failed |-> FALSE,
          cacheAtStart |-> fundingRatesCache, result |-> EmptyMap]

\* Promise.all and what follows it: rejected as soon as the clearinghouse
\* request has failed, resolved once both have answered.
settle(u, f) ==
    IF u.state # "awaiting" THEN u
    ELSE IF u.clearinghouse = "failed"
    THEN [u EXCEPT !.state = "rejected",
                   !.message = IF u.error.isError
                               THEN <<"Failed to fetch Hyperliquid positions: ",
                                      u.error.message>>
                               ELSE <<u.error.message>>]
    ELSE IF u.clearinghouse = "ok" /\ f.state = "returned"
    THEN [u EXCEPT !.state = "resolved", !.result = positionsOf(u.response, f.result)]
    ELSE u

GetFundingRates ==
    /\ fundingCall.state # "awaiting"
    /\ userCall.state # "awaiting"
    /\ fundingCall' = startFundingCall
    /\ UNCHANGED <<fundingRatesCache, userCall>>
    /\ UNCHANGED <<runVars, priceVars, commandVars>>

GetUserPositions ==
    /\ fundingCall.state # "awaiting"
    /\ userCall.state # "awaiting"
    /\ fundingCall' = startFundingCall
    /\ userCall' = [state |-> "awaiting", clearinghouse |-> "pending",
                    response |-> [assetPositions |-> <<>>],
                    error |-> [isError |-> TRUE, message |-> ""],
                    fundingFailed |-> FALSE,
                    result |-> <<>>, message |-> <<>>]
    /\ UNCHANGED fundingRatesCache
    /\ UNCHANGED <<runVars, priceVars, commandVars>>

\* The funding request answers (lines 114-126).
ReceiveFundingRates ==
    /\ fundingCall.state = "awaiting"
    /\ \E response \in FundingResponses :
           LET rates == ratesFrom(response.universe, response.assetCtxs, 1)
           IN  /\ fundingRatesCache' = rates
               /\ fundingCall' = [fundingCall EXCEPT !.state = "returned", !.result = rates]
    /\ userCall' = settle(userCall, fundingCall')
    /\ UNCHANGED <<runVars, priceVars, commandVars>>

\* The funding request fails (lines 127-130).
FailFundingRates ==
    /\ fundingCall.state = "awaiting"
    /\ fundingCall' = [fundingCall EXCEPT !.state = "returned", !.failed = TRUE,
                                          !.result = EmptyMap]
    /\ userCall' = settle(IF userCall.state = "awaiting"
                          THEN [userCall EXCEPT !.fundingFailed = TRUE] ELSE userCall,
                          fundingCall')
    /\ UNCHANGED fundingRatesCache
    /\ UNCHANGED <<runVars, priceVars, commandVars>>

ReceiveClearinghouseState ==
    /\ userCall.state = "awaiting"
    /\ userCall.clearinghouse = "pending"
    /\ \E response \in ClearinghouseStates :
           userCall' = settle([userCall EXCEPT !.clearinghouse = "ok",
                                               !.response = response], fundingCall)
    /\ UNCHANGED <<fundingRatesCache, fundingCall>>
    /\ UNCHANGED <<runVars, priceVars, commandVars>>

FailClearinghouseState ==
    /\ userCall.state = "awaiting"
    /\ userCall.clearinghouse = "pending"
    /\ \E error \in RequestErrors :
           userCall' = settle([userCall EXCEPT !.clearinghouse = "failed",
                                               !.error = error], fundingCall)
    /\ UNCHANGED <<fundingRatesCache, fundingCall>>
    /\ UNCHANGED <<runVars, priceVars, commandVars>>

HyperliquidNext ==
    \/ GetFundingRates \/ GetUserPositions
    \/ ReceiveFundingRates \/ FailFundingRates
    \/ ReceiveClearinghouseState \/ FailClearinghouseState

(***************************************************************************)
(* The commands: one process runs one command.  A step runs from one await *)
(* to the next; log records the calls that show what the command did.      *)
(***************************************************************************)
\* Reserves or hedge positions a fetch returns, at most.
MaxFetched == 3

Commands == {"check", "greeks", "hedge"}

CHAINS == {"ethereum", "polygon", "arbitrum", "optimism", "base"}

\* What a rejected await throws: Error instances and a value that is none.
ThrownValues ==
    {[isError |-> TRUE, message |-> "Request timed out"],
     [isError |-> TRUE, message |-> "Failed to fetch Hyperliquid positions: Request timed out"],
     [isError |-> FALSE, message |-> "aborted"]}

\* Mutant: the process exits before the spinner is stopped.
onErrorExitFirst(l, error) ==
    l \o <<<<"exit", "1">>,
           <<"spinner.stop", "Failed">>,
           <<"outro", IF error.isError THEN "Error: " \o error.message
                      ELSE "An unknown error occurred">>>>

\* The catch block.
onError(l, error) ==
    l \o <<<<"spinner.stop", "Failed">>,
           <<"outro", IF error.isError THEN "Error: " \o error.message
                      ELSE "An unknown error occurred">>,
           <<"exit", "1">>>>

\* The early return: no reserves, and for hedge no hedge positions either.
noPositions(cmd, aave, hyperliquid) ==
    IF cmd = "hedge" THEN aave = 0 /\ hyperliquid = 0 ELSE aave = 0

\* From the empty check to the price request.
afterPositions(l, cmd, aave, hyperliquid) ==
    IF noPositions(cmd, aave, hyperliquid)
    THEN [pc |-> "done",
          log |-> l \o <<<<"spinner.stop", "No positions found">>,
                         <<"outro", "no positions">>>>]
    ELSE [pc |-> "prices",
          log |-> l \o <<<<"spinner.message", "Fetching prices...">>,
                         <<"fetch", "prices">>>>]

\* From the prices to the end of the try block.
finish(l, cmd) ==
    l \o <<<<"analyze", cmd>>,
           <<"spinner.stop", "Analyzed">>,
           <<"print", cmd>>,
           <<"outro", "Stay sharp!">>>>

\* validateAddress and validateChain, then the spinner and the first fetch.
RunCommand ==
    /\ cmdPc = "idle"
    /\ \E cmd \in Commands :
           /\ command' = cmd
           /\ log' = <<<<"intro", cmd>>,
                       <<"spinner.start", cmd>>,
                       <<"fetch", "aave">>>>
    /\ cmdPc' = "aave"
    /\ UNCHANGED fetched
    /\ UNCHANGED <<runVars, priceVars, hyperliquidVars>>

\* A validator rejects the arguments: it exits itself, before the spinner.
RejectArguments ==
    /\ cmdPc = "idle"
    /\ \E cmd \in Commands :
           /\ command' = cmd
           /\ log' = <<<<"intro", cmd>>, <<"validator.exit", "1">>>>
    /\ cmdPc' = "exited"
    /\ UNCHANGED fetched
    /\ UNCHANGED <<runVars, priceVars, hyperliquidVars>>

\* The chain has no Alchemy key: the AaveService constructor throws inside
\* the try block, before the first fetch.
MissingAlchemyKey ==
    /\ cmdPc = "idle"
    /\ \E cmd \in Commands, chain \in CHAINS :
           /\ command' = cmd
           /\ log' = onError(<<<<"intro", cmd>>, <<"spinner.start", cmd>>>>,
                             [isError |-> TRUE,
                              message |-> "Missing Alchemy API key for " \o chain])
    /\ cmdPc' = "exited"
    /\ UNCHANGED fetched
    /\ UNCHANGED <<runVars, priceVars, hyperliquidVars>>

\* getUserReserveData resolves.
ReceiveReserves ==
    /\ cmdPc = "aave"
    /\ \E n \in 0..MaxFetched :
           /\ fetched' = [fetched EXCEPT !.aave = n]
           /\ IF command = "hedge"
              THEN /\ cmdPc' = "hyperliquid"
                   /\ log' = log \o <<<<"spinner.message", "Fetching Hyperliquid positions...">>,
                                       <<"fetch", "hyperliquid">>>>
              ELSE LET next == afterPositions(log, command, n, 0)
                   IN  cmdPc' = next.pc /\ log' = next.log
    /\ UNCHANGED command
    /\ UNCHANGED <<runVars, priceVars, hyperliquidVars>>

\* getUserPositions resolves (hedge only).
ReceivePositions ==
    /\ cmdPc = "hyperliquid"
    /\ \E m \in 0..MaxFetched :
           /\ fetched' = [fetched EXCEPT !.hyperliquid = m]
           /\ LET next == afterPositions(log, command, fetched.aave, m)
              IN  cmdPc' = next.pc /\ log' = next.log
    /\ UNCHANGED command
    /\ UNCHANGED <<runVars, priceVars, hyperliquidVars>>

\* getPrices resolves (it never rejects); hedge goes on to the mark prices,
\* which never reject either.
ReceivePriceTable ==
    /\ cmdPc = "prices"
    /\ IF command = "hedge"
       THEN cmdPc' = "marks" /\ log' = Append(log, <<"fetch", "marks">>)
       ELSE cmdPc' = "done" /\ log' = finish(log, command)
    /\ UNCHANGED <<command, fetched>>
    /\ UNCHANGED <<runVars, priceVars, hyperliquidVars>>

ReceiveMarkPrices ==
    /\ cmdPc = "marks"
    /\ cmdPc' = "done"
    /\ log' = finish(log, command)
    /\ UNCHANGED <<command, fetched>>
    /\ UNCHANGED <<runVars, priceVars, hyperliquidVars>>

\* An await of a fetch that can reject does: the catch block runs.
FetchRejects ==
    /\ cmdPc \in {"aave", "hyperliquid"}
    /\ \E error \in ThrownValues : log' = onError(log, error)
    /\ cmdPc' = "exited"
    /\ UNCHANGED <<command, fetched>>
    /\ UNCHANGED <<runVars, priceVars, hyperliquidVars>>

CommandNext ==
    \/ RunCommand \/ RejectArguments \/ MissingAlchemyKey
    \/ ReceiveReserves \/ ReceivePositions
    \/ ReceivePriceTable \/ ReceiveMarkPrices \/ FetchRejects

(***************************************************************************)
(* The run: collect the positions, then analyze them.  The hedge command   *)
(* runs HedgeAnalyzer on both lists; the greeks command collects lending   *)
(* rows only and runs ExposureAnalyzer and GreeksCalculator on them.       *)
(***************************************************************************)
NoAnalysis == [byAsset |-> <<>>]
NoGreeks == [delta |-> [totalDeltaUSD |-> 0, byAsset |-> <<>>]]

Init ==
    /\ prices \in PriceTables
    /\ aavePositions = <<>>
    /\ hyperliquidPositions = <<>>
    /\ hedgeAnalysis = NoAnalysis
    /\ analysis = NoAnalysis
    /\ greeks = NoGreeks
    /\ pc = "collect"
    /\ cache = EmptyMap
    /\ now = 0
    /\ getPricesCall = NoCall
    /\ fundingRatesCache = EmptyMap
    /\ fundingCall = NoCall
    /\ userCall = NoCall
    /\ command = "none"
    /\ cmdPc = "idle"
    /\ fetched = [aave |-> 0, hyperliquid |-> 0]
    /\ log = <<>>

\* One more reserve row, priced from the run's table.
AddAavePosition ==
    /\ pc = "collect"
    /\ Len(aavePositions) + Len(hyperliquidPositions) < MaxPositions
    /\ \E reserve \in RawReserves :
           aavePositions' = Append(aavePositions, transformReserve(reserve, prices))
    /\ UNCHANGED <<prices, hyperliquidPositions, hedgeAnalysis, analysis, greeks, pc>>
    /\ UNCHANGED <<priceVars, hyperliquidVars, commandVars>>

\* One more open perpetual position; an account holds at most one per coin.
AddHyperliquidPosition ==
    /\ pc = "collect"
    /\ Len(aavePositions) + Len(hyperliquidPositions) < MaxPositions
    /\ \E position \in HyperliquidInputs :
           /\ \A i \in 1..Len(hyperliquidPositions) :
                  hyperliquidPositions[i].coin # position.coin
           /\ hyperliquidPositions' = Append(hyperliquidPositions, position)
    /\ UNCHANGED <<prices, aavePositions, hedgeAnalysis, analysis, greeks, pc>>
    /\ UNCHANGED <<priceVars, hyperliquidVars, commandVars>>

Analyze ==
    /\ pc = "collect"
    /\ hedgeAnalysis' = analyze(aavePositions, hyperliquidPositions, prices)
    /\ pc' = "analyzed"
    /\ UNCHANGED <<prices, aavePositions, hyperliquidPositions, analysis, greeks>>
    /\ UNCHANGED <<priceVars, hyperliquidVars, commandVars>>

\* The greeks command on the lending rows collected.
CalculateGreeks ==
    /\ pc = "collect"
    /\ hyperliquidPositions = <<>>
    /\ analysis' = analyzeExposure(aavePositions)
    /\ greeks' = calculate(aavePositions, analysis')
    /\ pc' = "greeks"
    /\ UNCHANGED <<prices, aavePositions, hyperliquidPositions, hedgeAnalysis>>
    /\ UNCHANGED <<priceVars, hyperliquidVars, commandVars>>

Next == AddAavePosition \/ AddHyperliquidPosition \/ Analyze \/ CalculateGreeks

Spec == Init /\ [][Next]_vars

PriceSpec == Init /\ [][PriceNext]_vars

HyperliquidSpec == Init /\ [][HyperliquidNext]_vars

CommandSpec == Init /\ [][CommandNext]_vars

(***************************************************************************)
(* Properties of a finished analysis.                                      *)
(***************************************************************************)
Done == pc = "analyzed"
Entries == Range(hedgeAnalysis.byAsset)
Keys == {e.asset : e \in Entries}

\* The caller's lists, summed the way the properties state them.
SuppliedUSD == SumSeq([i \in 1..Len(aavePositions) |-> aavePositions[i].suppliedUSD])
BorrowedUSD == SumSeq([i \in 1..Len(aavePositions) |-> aavePositions[i].borrowedUSD])
EquityUSD == SuppliedUSD - BorrowedUSD
WeightedLendingAPR ==
    SumSeq([i \in 1..Len(aavePositions) |->
        aavePositions[i].suppliedUSD * aavePositions[i].supplyAPR
      - aavePositions[i].borrowedUSD * aavePositions[i].borrowAPR])
WeightedFunding ==
    SumSeq([i \in 1..Len(hyperliquidPositions) |->
        hyperliquidPositions[i].notionalValue
      * (IF hyperliquidPositions[i].side = "SHORT"
         THEN hyperliquidPositions[i].fundingRateAnnualized
         ELSE -hyperliquidPositions[i].fundingRateAnnualized)])

\* C1: combinedNetAPY is 0 whenever the reported total capital (lending equity
\* plus hedge margin) is not positive.
C1_ZeroWithoutCapital ==
    (Done /\ RLe(hedgeAnalysis.totals.totalCapitalUSD, RZero))
        => hedgeAnalysis.combinedNetAPY = RZero

\* C2: with positive total capital, combinedNetAPY is the lending income plus
\* the funding income divided by the reported total capital.
C2_DividedByTotalCapital ==
    (Done /\ RGt(hedgeAnalysis.totals.totalCapitalUSD, RZero))
        => hedgeAnalysis.combinedNetAPY =
               RDiv(RAdd(RMul(RInt(hedgeAnalysis.totals.aaveEquityUSD),
                              hedgeAnalysis.aaveNetAPY),
                         RInt(WeightedFunding)),
                    hedgeAnalysis.totals.totalCapitalUSD)

\* C3: aaveNetAPY is the APR-weighted net income over the equity when the
\* equity is positive, and 0 when the equity is zero or negative.
C3_NetAPYZeroWithoutEquity ==
    Done => hedgeAnalysis.aaveNetAPY =
                (IF EquityUSD > 0 THEN Rat(WeightedLendingAPR, EquityUSD) ELSE RZero)

\* C4: a non-zero hedgeRatio only where the record's own two legs oppose.
C4_RatioOnlyWhenReportedLegsOppose ==
    Done => \A e \in Entries :
        e.hedgeRatio # RZero =>
            \/ e.aaveExposure.direction = "LONG" /\ e.hyperliquidExposure.side = "SHORT"
            \/ e.aaveExposure.direction = "SHORT" /\ e.hyperliquidExposure.side = "LONG"

\* The legs oppose by value: the lending net USD is long against a SHORT hedge
\* or short against a LONG hedge.
Opposes(e) ==
    \/ e.aaveExposure.netUSD > 0 /\ e.hyperliquidExposure.side = "SHORT"
    \/ e.aaveExposure.netUSD < 0 /\ e.hyperliquidExposure.side = "LONG"

\* C5: hedgeRatio is hedge notional / |lending netUSD| x 100 when the legs
\* oppose (by the sign of the lending netUSD) and exactly 0 otherwise.
C5_HedgeRatioValue ==
    Done => \A e \in Entries :
        IF Opposes(e)
        THEN /\ e.hedgeRatio.num * Abs(e.aaveExposure.netUSD)
                    = 100 * e.hyperliquidExposure.sizeUSD * e.hedgeRatio.den
             /\ e.hedgeRatio.den > 0
        ELSE e.hedgeRatio = RZero

\* A long lending net hedged by a short of a fifth of its value: ratio 20.
C5_Witness ==
    /\ Done
    /\ \E e \in Entries :
           /\ Opposes(e)
           /\ e.aaveExposure.netUSD = 380
           /\ e.hyperliquidExposure.sizeUSD = 76
           /\ e.hedgeRatio = RInt(20)

\* C6: the keys of byAsset are the normalized symbols of both lists, one record
\* each, and every key is canonical.
C6_KeysAreNormalized ==
    Done =>
        /\ Keys = {normalizeAsset(aavePositions[i].asset) : i \in 1..Len(aavePositions)}
                  \cup {normalizeAsset(hyperliquidPositions[i].coin) :
                            i \in 1..Len(hyperliquidPositions)}
        /\ Cardinality(Keys) = Len(hedgeAnalysis.byAsset)
        /\ \A k \in Keys : normalizeAsset(k) = k

\* The lending rows of one canonical symbol, summed.
LendingNet(symbol) ==
    SumSeq([i \in 1..Len(aavePositions) |->
        IF normalizeAsset(aavePositions[i].asset) = symbol
        THEN aavePositions[i].supplied - aavePositions[i].borrowed ELSE 0])
LendingNetUSD(symbol) ==
    SumSeq([i \in 1..Len(aavePositions) |->
        IF normalizeAsset(aavePositions[i].asset) = symbol
        THEN aavePositions[i].suppliedUSD - aavePositions[i].borrowedUSD ELSE 0])

\* C7: wrapped lending rows and the hedge position of the canonical coin meet
\* in the one record keyed by the canonical symbol, and no other record holds
\* any of that lending exposure.
C7_WrappedRowsInOneRecord ==
    Done => \A c \in {"ETH", "BTC"} :
        (/\ \E i \in 1..Len(aavePositions) :
                /\ aavePositions[i].asset # c
                /\ normalizeAsset(aavePositions[i].asset) = c
         /\ \E j \in 1..Len(hyperliquidPositions) : hyperliquidPositions[j].coin = c)
        => /\ \E e \in Entries :
                  /\ e.asset = c
                  /\ e.aaveExposure.net = LendingNet(c)
                  /\ e.aaveExposure.netUSD = LendingNetUSD(c)
                  /\ \E j \in 1..Len(hyperliquidPositions) :
                         /\ hyperliquidPositions[j].coin = c
                         /\ e.hyperliquidExposure.size = hyperliquidPositions[j].size
                         /\ e.hyperliquidExposure.sizeUSD
                                = hyperliquidPositions[j].notionalValue
                         /\ e.hyperliquidExposure.side = hyperliquidPositions[j].side
           /\ \A e \in Entries :
                  e.asset # c =>
                      /\ e.aaveExposure.net = LendingNet(e.asset)
                      /\ e.aaveExposure.netUSD = LendingNetUSD(e.asset)

\* The hedge positions that are positions at all: a side and a size.
LivePositions ==
    SelectSeq(hyperliquidPositions, LAMBDA p : p.side # "NEUTRAL" /\ p.size # 0)

\* C8: a NEUTRAL or size-0 hedge position adds nothing to any net exposure, to
\* the hedge total and margin, or to the funding and combined APY.
C8_NeutralCountsAsNoPosition ==
    Done =>
        LET live == analyze(aavePositions, LivePositions, prices)
        IN  /\ hedgeAnalysis.totals.hyperliquidTotalUSD = live.totals.hyperliquidTotalUSD
            /\ hedgeAnalysis.totals.hyperliquidMarginUSD = live.totals.hyperliquidMarginUSD
            /\ hedgeAnalysis.hyperliquidFundingAPY = live.hyperliquidFundingAPY
            /\ hedgeAnalysis.combinedNetAPY = live.combinedNetAPY
            /\ \A e \in Entries :
                   e.netExposure =
                       analyzeAsset(e.asset, aavePositions, LivePositions, prices).netExposure

InBuckets(asset) ==
    {b \in {"perfectlyHedged", "partiallyHedged", "unhedged", "overHedged"} :
        asset \in Range(hedgeAnalysis.effectiveness[b])}

\* C9: an entry with non-zero lending netUSD is in exactly the one bucket its
\* hedgeRatio selects; an entry with lending netUSD 0 is in none; a bucket lists
\* an asset once.
C9_EffectivenessPartition ==
    Done =>
        /\ \A e \in Entries :
               LET r == e.hedgeRatio
               IN  InBuckets(e.asset) =
                       IF e.aaveExposure.netUSD = 0 THEN {}
                       ELSE IF RLe(RInt(95), r) /\ RLe(r, RInt(105)) THEN {"perfectlyHedged"}
                       ELSE IF RGt(r, RInt(105)) THEN {"overHedged"}
                       ELSE IF RLt(RInt(20), r) /\ RLt(r, RInt(95)) THEN {"partiallyHedged"}
                       ELSE IF RLe(r, RInt(20)) THEN {"unhedged"}
                       ELSE {"unclassified"}
        /\ \A b \in DOMAIN hedgeAnalysis.effectiveness :
               LET bucket == hedgeAnalysis.effectiveness[b]
               IN  /\ Range(bucket) \subseteq Keys
                   /\ Cardinality(Range(bucket)) = Len(bucket)

\* One entry on the lower edge of "perfectly hedged" beside a hedged coin with
\* no lending exposure, which no bucket lists.
C9_Witness ==
    /\ Done
    /\ \E e \in Entries :
           /\ e.hedgeRatio = RInt(95)
           /\ InBuckets(e.asset) = {"perfectlyHedged"}
    /\ \E e \in Entries :
           /\ e.aaveExposure.netUSD = 0
           /\ e.hyperliquidExposure.side = "SHORT"
           /\ e.hyperliquidExposure.sizeUSD > 0
           /\ InBuckets(e.asset) = {}

\* C10: no clamping: an opposing hedge larger than the lending net gives a
\* ratio above 100, and overallHedgeRatio is hyperliquidTotalUSD / aaveTotalUSD
\* x 100 (0 when aaveTotalUSD is 0), above 100 when the hedge total is larger.
C10_RatiosNotClamped ==
    Done =>
        LET tot == hedgeAnalysis.totals
        IN  /\ \A e \in Entries :
                   (Opposes(e) /\ e.hyperliquidExposure.sizeUSD > Abs(e.aaveExposure.netUSD))
                       => RGt(e.hedgeRatio, RInt(100))
            /\ IF tot.aaveTotalUSD = 0
               THEN tot.overallHedgeRatio = RZero
               ELSE /\ tot.overallHedgeRatio.num * tot.aaveTotalUSD
                           = 100 * tot.hyperliquidTotalUSD * tot.overallHedgeRatio.den
                    /\ tot.overallHedgeRatio.den > 0
            /\ (tot.hyperliquidTotalUSD > tot.aaveTotalUSD /\ tot.aaveTotalUSD > 0)
                   => RGt(tot.overallHedgeRatio, RInt(100))

\* An over-hedged asset in an over-hedged portfolio.
C10_Witness ==
    /\ Done
    /\ \E e \in Entries :
           /\ Opposes(e)
           /\ e.hyperliquidExposure.sizeUSD > Abs(e.aaveExposure.netUSD)
           /\ RGt(e.hedgeRatio, RInt(100))
    /\ hedgeAnalysis.totals.aaveTotalUSD > 0
    /\ hedgeAnalysis.totals.hyperliquidTotalUSD > hedgeAnalysis.totals.aaveTotalUSD
    /\ RGt(hedgeAnalysis.totals.overallHedgeRatio, RInt(100))

\* C11: aaveTotalUSD and hyperliquidTotalUSD are the sums over byAsset of the
\* absolute lending netUSD and hedge sizeUSD; netExposureUSD is the signed sum
\* of the per-asset net amountUSD, so opposite assets cancel in it.
C11_TotalsOverByAsset ==
    Done =>
        LET byAsset == hedgeAnalysis.byAsset
            tot == hedgeAnalysis.totals
        IN  /\ tot.aaveTotalUSD =
                   SumSeq([i \in 1..Len(byAsset) |-> Abs(byAsset[i].aaveExposure.netUSD)])
            /\ tot.hyperliquidTotalUSD =
                   SumSeq([i \in 1..Len(byAsset) |->
                       Abs(byAsset[i].hyperliquidExposure.sizeUSD)])
            /\ tot.netExposureUSD =
                   SumSeq([i \in 1..Len(byAsset) |-> byAsset[i].netExposure.amountUSD])

\* A net-long asset beside a net-short asset: they offset each other in
\* netExposureUSD and add up in aaveTotalUSD.
C11_Witness ==
    /\ Done
    /\ \E e1, e2 \in Entries :
           /\ e1.netExposure.amountUSD > 0
           /\ e2.netExposure.amountUSD < 0
           /\ e1.aaveExposure.netUSD > 0
           /\ e2.aaveExposure.netUSD < 0
    /\ hedgeAnalysis.totals.netExposureUSD < hedgeAnalysis.totals.aaveTotalUSD
    /\ hedgeAnalysis.totals.hyperliquidTotalUSD > 0

\* The margin a hedge position posts: notional / leverage, nothing without a
\* positive leverage.
MarginOf(position) ==
    IF position.leverage <= 0 THEN RZero
    ELSE Rat(position.notionalValue, position.leverage)

\* C12: hyperliquidMarginUSD is the sum of notionalValue / leverage over all
\* hedge positions (0 for leverage <= 0), aaveEquityUSD is the supplied USD
\* minus the borrowed USD of all rows, and totalCapitalUSD is their sum.
C12_CapitalTotals ==
    Done =>
        LET tot == hedgeAnalysis.totals
        IN  /\ tot.hyperliquidMarginUSD =
                   RSumSeq([i \in 1..Len(hyperliquidPositions) |->
                       MarginOf(hyperliquidPositions[i])])
            /\ tot.aaveEquityUSD = SuppliedUSD - BorrowedUSD
            /\ tot.totalCapitalUSD = RAdd(RInt(tot.aaveEquityUSD), tot.hyperliquidMarginUSD)

\* A leveraged position beside one without leverage, over lending rows of two
\* symbols with supply and debt.
C12_Witness ==
    /\ Done
    /\ \E i, j \in 1..Len(hyperliquidPositions) :
           /\ hyperliquidPositions[i].leverage > 1
           /\ hyperliquidPositions[j].leverage <= 0
           /\ hyperliquidPositions[j].notionalValue > 0
           /\ hedgeAnalysis.totals.hyperliquidMarginUSD = MarginOf(hyperliquidPositions[i])
    /\ SuppliedUSD > 0
    /\ BorrowedUSD > 0
    /\ RGt(hedgeAnalysis.totals.totalCapitalUSD, RInt(hedgeAnalysis.totals.aaveEquityUSD))

TotalNotional ==
    SumSeq([i \in 1..Len(hyperliquidPositions) |-> hyperliquidPositions[i].notionalValue])

\* C13: hyperliquidFundingAPY is the notional-weighted average of the effective
\* funding, +fundingRateAnnualized for a SHORT position and -fundingRateAnnualized
\* for any other, and 0 when the total notional is 0.
C13_FundingWeightedByNotional ==
    Done =>
        LET apy == hedgeAnalysis.hyperliquidFundingAPY
        IN  IF TotalNotional = 0 THEN apy = RZero
            ELSE /\ apy.num * TotalNotional = WeightedFunding * apy.den
                 /\ apy.den > 0

\* A SHORT and a LONG position of different notional and funding.
C13_Witness ==
    /\ Done
    /\ \E i, j \in 1..Len(hyperliquidPositions) :
           /\ hyperliquidPositions[i].side = "SHORT"
           /\ hyperliquidPositions[j].side = "LONG"
           /\ hyperliquidPositions[i].notionalValue # hyperliquidPositions[j].notionalValue
           /\ hyperliquidPositions[i].fundingRateAnnualized
                  # hyperliquidPositions[j].fundingRateAnnualized
    /\ hedgeAnalysis.hyperliquidFundingAPY # RZero

\* A hedged coin whose canonical symbol no lending row has.
HedgeOnly(asset) ==
    /\ \E j \in 1..Len(hyperliquidPositions) : hyperliquidPositions[j].coin = asset
    /\ \A i \in 1..Len(aavePositions) :
           normalizeAsset(aavePositions[i].asset) # normalizeAsset(asset)

\* C14: every symbol of either list gets a record; a record without a hedge
\* position has the all-zero NEUTRAL hedge, hedgeRatio 0 and its lending
\* exposure as net exposure; the record of a hedge-only coin has a zero NEUTRAL
\* lending exposure and hedgeRatio 0; a symbol without a price has price 0.
C14_OneSidedAndUnpriced ==
    Done =>
        /\ \A i \in 1..Len(aavePositions) : normalizeAsset(aavePositions[i].asset) \in Keys
        /\ \A j \in 1..Len(hyperliquidPositions) : hyperliquidPositions[j].coin \in Keys
        /\ \A e \in Entries :
               /\ (\A j \in 1..Len(hyperliquidPositions) :
                       hyperliquidPositions[j].coin # e.asset)
                   => /\ e.hyperliquidExposure =
                             [size |-> 0, sizeUSD |-> 0, side |-> "NEUTRAL", leverage |-> 0,
                              unrealizedPnl |-> 0, fundingRate |-> 0,
                              fundingRateAnnualized |-> 0]
                      /\ e.hedgeRatio = RZero
                      /\ e.netExposure = [amount |-> e.aaveExposure.net,
                                          amountUSD |-> e.aaveExposure.netUSD,
                                          direction |-> e.aaveExposure.direction]
               /\ HedgeOnly(e.asset)
                   => /\ e.aaveExposure = [net |-> 0, netUSD |-> 0, direction |-> "NEUTRAL"]
                      /\ e.hedgeRatio = RZero
               /\ e.asset \notin DOMAIN prices => e.price = 0

\* An unpriced lending-only symbol beside a hedge-only coin.
C14_Witness ==
    /\ Done
    /\ \E e \in Entries :
           /\ \A j \in 1..Len(hyperliquidPositions) : hyperliquidPositions[j].coin # e.asset
           /\ e.asset \notin DOMAIN prices
           /\ e.aaveExposure.net # 0
           /\ e.price = 0
    /\ \E e \in Entries :
           /\ HedgeOnly(e.asset)
           /\ e.hyperliquidExposure.sizeUSD > 0
           /\ e.hyperliquidExposure.side # "NEUTRAL"

(***************************************************************************)
(* Properties of a finished greeks run.                                    *)
(***************************************************************************)
GreeksDone == pc = "greeks"

\* The lending rows of one raw symbol, summed.
RowSum(symbol, F(_)) ==
    SumSeq([i \in 1..Len(aavePositions) |->
        IF aavePositions[i].asset = symbol THEN F(aavePositions[i]) ELSE 0])
RawSymbols == {aavePositions[i].asset : i \in 1..Len(aavePositions)}

\* Supplied USD weighted by the liquidation threshold, over all rows.
CollateralUSD ==
    RSumSeq([i \in 1..Len(aavePositions) |->
        RMul(RInt(aavePositions[i].suppliedUSD), aavePositions[i].liquidationThreshold)])

\* C15: healthFactor is +Infinity when the borrowed USD sum to exactly 0, and
\* otherwise the threshold-weighted supplied USD over the borrowed USD.
C15_HealthFactor ==
    GreeksDone =>
        IF BorrowedUSD = 0 THEN analysis.healthFactor = Infinity
        ELSE /\ analysis.healthFactor.den > 0
             /\ RMul(analysis.healthFactor, RInt(BorrowedUSD)) = CollateralUSD

\* Collateral against a debt that has no USD value: the unpriced symbol.
C15_Witness ==
    /\ GreeksDone
    /\ SuppliedUSD > 0
    /\ \E i \in 1..Len(aavePositions) : aavePositions[i].borrowed > 0
    /\ BorrowedUSD = 0
    /\ analysis.healthFactor = Infinity

\* C16: leverage is 1 when the net value is exactly 0, whatever was supplied,
\* and totalSuppliedUSD / netValueUSD otherwise.
C16_Leverage ==
    GreeksDone =>
        /\ analysis.netValueUSD = SuppliedUSD - BorrowedUSD
        /\ IF analysis.netValueUSD = 0 THEN analysis.leverage = RInt(1)
           ELSE /\ analysis.leverage.den > 0
                /\ analysis.leverage.num * analysis.netValueUSD
                       = analysis.totalSuppliedUSD * analysis.leverage.den

\* A book whose debt equals its supply.
C16_Witness ==
    /\ GreeksDone
    /\ analysis.totalSuppliedUSD > 0
    /\ analysis.netValueUSD = 0
    /\ analysis.leverage = RInt(1)

\* C17: every Analysis satisfies its declared type: healthFactor > 0 and
\* leverage > 0.
C17_DeclaredTypeHolds ==
    GreeksDone =>
        /\ RGt(analysis.healthFactor, RZero)
        /\ RGt(analysis.leverage, RZero)

LoopsOf(symbol) == SelectSeq(analysis.loops, LAMBDA l : l.asset = symbol)

\* C18: a raw symbol is in loops iff its summed supplied and summed borrowed
\* amounts are both positive; it is there once, with the summed amounts and
\* effectiveLeverage = supplied / (supplied - borrowed), the IEEE quotient
\* +Infinity when the two are equal.
C18_LoopDetection ==
    GreeksDone =>
        /\ \A i \in 1..Len(analysis.loops) : analysis.loops[i].asset \in RawSymbols
        /\ \A s \in RawSymbols :
               LET supplied == RowSum(s, LAMBDA p : p.supplied)
                   borrowed == RowSum(s, LAMBDA p : p.borrowed)
                   found == LoopsOf(s)
               IN  IF supplied > 0 /\ borrowed > 0
                   THEN /\ Len(found) = 1
                        /\ found[1].supplied = supplied
                        /\ found[1].borrowed = borrowed
                        /\ IF supplied = borrowed
                           THEN found[1].effectiveLeverage = Infinity
                           ELSE /\ found[1].effectiveLeverage.den > 0
                                /\ found[1].effectiveLeverage.num * (supplied - borrowed)
                                       = supplied * found[1].effectiveLeverage.den
                   ELSE found = <<>>

\* Two rows of one symbol add up to supplied 3 against borrowed 1, beside a
\* symbol that is only supplied.
C18_Witness ==
    /\ GreeksDone
    /\ \E i \in 1..Len(analysis.loops) :
           /\ analysis.loops[i].supplied = 3
           /\ analysis.loops[i].borrowed = 1
           /\ analysis.loops[i].effectiveLeverage = Rat(3, 2)
           /\ \E j, k \in 1..Len(aavePositions) :
                  /\ j # k
                  /\ aavePositions[j].asset = analysis.loops[i].asset
                  /\ aavePositions[k].asset = analysis.loops[i].asset
    /\ \E s \in RawSymbols :
           /\ RowSum(s, LAMBDA p : p.supplied) > 0
           /\ RowSum(s, LAMBDA p : p.borrowed) = 0
           /\ LoopsOf(s) = <<>>

ExposureEntries == Range(analysis.byAsset)

\* C19: byAsset has one record per raw symbol, holding the sums of the rows of
\* that symbol, net = supplied - borrowed, netUSD = suppliedUSD - borrowedUSD
\* and the direction of net; the totals are the sums over byAsset.
C19_ByRawSymbol ==
    GreeksDone =>
        /\ {e.asset : e \in ExposureEntries} = RawSymbols
        /\ Len(analysis.byAsset) = Cardinality(RawSymbols)
        /\ \A e \in ExposureEntries :
               /\ e.supplied = RowSum(e.asset, LAMBDA p : p.supplied)
               /\ e.borrowed = RowSum(e.asset, LAMBDA p : p.borrowed)
               /\ e.suppliedUSD = RowSum(e.asset, LAMBDA p : p.suppliedUSD)
               /\ e.borrowedUSD = RowSum(e.asset, LAMBDA p : p.borrowedUSD)
               /\ e.net = e.supplied - e.borrowed
               /\ e.netUSD = e.suppliedUSD - e.borrowedUSD
               /\ e.direction = (IF e.net > 0 THEN "LONG"
                                 ELSE IF e.net < 0 THEN "SHORT" ELSE "NEUTRAL")
        /\ analysis.totalSuppliedUSD =
               SumSeq([i \in 1..Len(analysis.byAsset) |-> analysis.byAsset[i].suppliedUSD])
        /\ analysis.totalBorrowedUSD =
               SumSeq([i \in 1..Len(analysis.byAsset) |-> analysis.byAsset[i].borrowedUSD])

\* WETH in two rows beside wstETH: two records, the WETH one holding both rows.
C19_Witness ==
    /\ GreeksDone
    /\ \E e1, e2 \in ExposureEntries :
           /\ e1.asset = "WETH"
           /\ e2.asset = "wstETH"
           /\ Cardinality({i \in 1..Len(aavePositions) : aavePositions[i].asset = "WETH"}) = 2
           /\ e1.supplied + e1.borrowed > 2
           /\ e2.supplied + e2.borrowed > 0
    /\ analysis.totalBorrowedUSD > 0

\* C20: the gamma of the Greeks is the leverage of the Analysis handed in,
\* whatever it is and whatever the positions are.
C20_GammaIsLeverage ==
    GreeksDone =>
        /\ greeks.gamma = [leverage |-> analysis.leverage]
        /\ calculate(<<>>, analysis).gamma = [leverage |-> analysis.leverage]
        /\ \A i \in 1..Len(aavePositions) :
               calculate(<<aavePositions[i]>>, analysis).gamma.leverage = analysis.leverage

\* A book with more debt than supply: the negative leverage is passed on.
C20_Witness ==
    /\ GreeksDone
    /\ BorrowedUSD > SuppliedUSD
    /\ SuppliedUSD > 0
    /\ RLt(analysis.leverage, RZero)
    /\ greeks.gamma.leverage = analysis.leverage

DeltaEntries == Range(greeks.delta.byAsset)

\* C21: delta.byAsset has one record per raw symbol with net and deltaUSD summed
\* over the rows of that symbol as (supplied - borrowed) and (supplied -
\* borrowed) x price; totalDeltaUSD is the sum of the records' deltaUSD.
C21_DeltaByRawSymbol ==
    GreeksDone =>
        /\ {e.asset : e \in DeltaEntries} = RawSymbols
        /\ Len(greeks.delta.byAsset) = Cardinality(RawSymbols)
        /\ \A e \in DeltaEntries :
               /\ e.net = RowSum(e.asset, LAMBDA p : p.supplied - p.borrowed)
               /\ e.deltaUSD = RowSum(e.asset, LAMBDA p : (p.supplied - p.borrowed) * p.price)
        /\ greeks.delta.totalDeltaUSD =
               SumSeq([i \in 1..Len(greeks.delta.byAsset) |->
                   greeks.delta.byAsset[i].deltaUSD])

\* WETH in two rows beside wstETH: two records, opposite in sign.
C21_Witness ==
    /\ GreeksDone
    /\ Cardinality({i \in 1..Len(aavePositions) : aavePositions[i].asset = "WETH"}) = 2
    /\ \E e1, e2 \in DeltaEntries :
           /\ e1.asset = "WETH"
           /\ e2.asset = "wstETH"
           /\ e1.deltaUSD > 380
           /\ e2.deltaUSD < 0
    /\ greeks.delta.totalDeltaUSD > 0

\* The rows with nothing supplied.
DebtSide ==
    [i \in 1..Len(aavePositions) |->
        [aavePositions[i] EXCEPT !.supplied = 0, !.suppliedUSD = 0]]

\* C22: rateImpactYearly is the borrowed USD of all rows x 0.01 and
\* rateImpactMonthly a twelfth of it; both are 0 without debt and the same
\* whatever is supplied.
C22_Vega ==
    GreeksDone =>
        LET vega == greeks.vega
        IN  /\ vega.rateImpactYearly.den > 0
            /\ vega.rateImpactMonthly.den > 0
            /\ 100 * vega.rateImpactYearly.num = BorrowedUSD * vega.rateImpactYearly.den
            /\ RMul(vega.rateImpactMonthly, RInt(12)) = vega.rateImpactYearly
            /\ BorrowedUSD = 0 =>
                   /\ vega.rateImpactYearly = RZero
                   /\ vega.rateImpactMonthly = RZero
            /\ calculate(DebtSide, analysis).vega = vega

\* A debt of 380 USD beside a larger supply: 3.8 a year.
C22_Witness ==
    /\ GreeksDone
    /\ BorrowedUSD = 380
    /\ SuppliedUSD > BorrowedUSD
    /\ greeks.vega.rateImpactYearly = Rat(38, 10)
    /\ greeks.vega.rateImpactMonthly = Rat(38, 120)

\* C23: dailyNet is the net of the APR-weighted sums / 365 / 100, monthlyNet
\* is 30 x dailyNet and yearlyNet is 365 x dailyNet.
C23_Theta ==
    GreeksDone =>
        LET theta == greeks.theta
        IN  /\ theta.dailyNet.den > 0
            /\ 36500 * theta.dailyNet.num = WeightedLendingAPR * theta.dailyNet.den
            /\ theta.monthlyNet = RMul(RInt(30), theta.dailyNet)
            /\ theta.yearlyNet = RMul(RInt(365), theta.dailyNet)
            /\ RMul(theta.yearlyNet, RInt(100)) = RInt(WeightedLendingAPR)

\* Interest earned on a supply and paid on a debt, with a net cost.
C23_Witness ==
    /\ GreeksDone
    /\ \E i \in 1..Len(aavePositions) :
           aavePositions[i].suppliedUSD * aavePositions[i].supplyAPR > 0
    /\ \E i \in 1..Len(aavePositions) :
           aavePositions[i].borrowedUSD * aavePositions[i].borrowAPR > 0
    /\ RLt(greeks.theta.dailyNet, RZero)
    /\ greeks.theta.monthlyNet # greeks.theta.yearlyNet

\* A number that is not NaN, and one that is finite.
IsDefined(x) == x # NaN
IsFinite(x) == x.den > 0

\* C24: every quotient of the analyzers is a defined value: the loop entry of
\* a symbol whose summed supplied equals its summed borrowed has
\* effectiveLeverage +Infinity, no result is NaN, and all results other than
\* healthFactor and effectiveLeverage are finite.
C24_DivisionsDefined ==
    /\ GreeksDone =>
           /\ \A i \in 1..Len(analysis.loops) :
                  LET l == analysis.loops[i]
                  IN  /\ IsDefined(l.effectiveLeverage)
                      /\ IF l.supplied = l.borrowed
                         THEN l.effectiveLeverage = Infinity
                         ELSE IsFinite(l.effectiveLeverage)
           /\ \A s \in RawSymbols :
                  (/\ RowSum(s, LAMBDA p : p.supplied) > 0
                   /\ RowSum(s, LAMBDA p : p.supplied) = RowSum(s, LAMBDA p : p.borrowed))
                      => Len(LoopsOf(s)) = 1
           /\ IsDefined(analysis.healthFactor)
           /\ IsFinite(analysis.healthFactor) \/ analysis.healthFactor = Infinity
           /\ IsFinite(analysis.leverage)
           /\ IsFinite(analysis.utilizationRate)
           /\ IsFinite(analysis.netAPY)
           /\ IsFinite(greeks.vega.rateImpactMonthly)
           /\ IsFinite(greeks.theta.dailyNet)
    /\ Done =>
           /\ \A e \in Entries : IsFinite(e.hedgeRatio)
           /\ IsFinite(hedgeAnalysis.totals.hyperliquidMarginUSD)
           /\ IsFinite(hedgeAnalysis.totals.overallHedgeRatio)
           /\ IsFinite(hedgeAnalysis.aaveNetAPY)
           /\ IsFinite(hedgeAnalysis.hyperliquidFundingAPY)
           /\ IsFinite(hedgeAnalysis.combinedNetAPY)

\* A supply row and a debt row of one symbol cancel: the loop entry is there,
\* with effectiveLeverage +Infinity, and the analysis is complete.
C24_Witness ==
    /\ GreeksDone
    /\ \E i \in 1..Len(analysis.loops) :
           /\ analysis.loops[i].supplied > 0
           /\ analysis.loops[i].supplied = analysis.loops[i].borrowed
           /\ analysis.loops[i].effectiveLeverage = Infinity
    /\ analysis.leverage = RInt(1)

(***************************************************************************)
(* Properties of the price service.                                        *)
(***************************************************************************)
\* The symbol had a cache entry younger than 60000 ms when the call started.
FreshAtStart(s) ==
    /\ s \in DOMAIN getPricesCall.cacheAtStart
    /\ getPricesCall.startedAt - getPricesCall.cacheAtStart[s].timestamp < 60000

\* C25: a requested symbol is answered from the cache, and its id left out of
\* the request, exactly when its entry is younger than 60000 ms; a call with
\* only fresh symbols sends no request; a failed request returns the
\* cache-served prices only and leaves the cache as it was; a symbol without
\* an id is never priced or cached.
C25_PriceCache ==
    /\ \A s \in DOMAIN cache : CoinGeckoId(s) # ""
    /\ getPricesCall.state # "none" =>
           LET c == getPricesCall
               requestedIds == IF c.requested THEN Range(c.ids) ELSE {}
           IN  /\ \A s \in Range(c.symbols) :
                      IF FreshAtStart(s)
                      THEN /\ s \in DOMAIN c.prices
                           /\ c.prices[s] = c.cacheAtStart[s].price
                           /\ CoinGeckoId(s) \notin requestedIds
                      ELSE /\ CoinGeckoId(s) # "" => CoinGeckoId(s) \in requestedIds
                           /\ c.state = "awaiting" => s \notin DOMAIN c.prices
               /\ (\A s \in Range(c.symbols) : FreshAtStart(s)) => ~c.requested
               /\ c.failed =>
                      /\ c.state = "returned"
                      /\ DOMAIN c.prices = {s \in Range(c.symbols) : FreshAtStart(s)}
                      /\ cache = c.cacheAtStart
               /\ \A s \in DOMAIN c.prices : CoinGeckoId(s) # "" /\ s \in Range(c.symbols)

\* A call finds one symbol 40000 ms old and one exactly 60000 ms old: it asks
\* for the second only, the request fails, and the first is all it returns.
C25_Witness ==
    /\ getPricesCall.state = "returned"
    /\ getPricesCall.failed
    /\ \E s1, s2 \in Range(getPricesCall.symbols) :
           /\ s1 \in DOMAIN cache
           /\ s2 \in DOMAIN cache
           /\ getPricesCall.startedAt - cache[s1].timestamp = 40000
           /\ getPricesCall.startedAt - cache[s2].timestamp = 60000
           /\ DOMAIN getPricesCall.prices = {s1}
           /\ getPricesCall.ids = <<CoinGeckoId(s2)>>

(***************************************************************************)
(* Properties of the Hyperliquid service.                                  *)
(***************************************************************************)
\* What a getFundingRates call did, against the cache it found.
FundingCallAsCached ==
    fundingCall.state # "none" =>
        LET f == fundingCall
        IN  /\ DOMAIN f.cacheAtStart # {} =>
                   /\ f.state = "returned"
                   /\ ~f.requested
                   /\ f.result = f.cacheAtStart
                   /\ fundingRatesCache = f.cacheAtStart
            /\ DOMAIN f.cacheAtStart = {} => f.requested
            /\ f.failed =>
                   /\ f.state = "returned"
                   /\ f.result = EmptyMap
                   /\ fundingRatesCache = f.cacheAtStart
            /\ (f.state = "returned" /\ f.requested /\ ~f.failed) =>
                   fundingRatesCache = f.result

\* C26: once the cache holds a rate it never changes again, and a call that
\* finds it filled returns it without a request; a failed fetch returns the
\* empty map and leaves the cache empty, so that the next call requests again.
C26_FundingRatesCachedOnce ==
    [][/\ DOMAIN fundingRatesCache # {} => fundingRatesCache' = fundingRatesCache
       /\ FundingCallAsCached']_vars

\* A call answered from the cache that an earlier fetch filled.
C26_Witness ==
    /\ DOMAIN fundingRatesCache = {"ETH", "BTC"}
    /\ fundingCall.state = "returned"
    /\ ~fundingCall.requested
    /\ fundingCall.result = fundingRatesCache
    /\ userCall.state = "resolved"

\* C27: getUserPositions resolves once the clearinghouse request has
\* succeeded, also when the funding fetch failed, and then every position has
\* fundingRate 0 and fundingRateAnnualized 0; it rejects with the prefixed
\* message exactly when the clearinghouse request failed; a resolved list holds
\* the raw positions of non-zero size, each with size > 0 and side LONG or
\* SHORT.
C27_UserPositions ==
    userCall.state # "none" =>
        LET u == userCall
        IN  /\ u.state = "rejected" <=> u.clearinghouse = "failed"
            /\ u.state = "rejected" =>
                   u.message[1] = "Failed to fetch Hyperliquid positions: "
            /\ u.state = "resolved" => u.clearinghouse = "ok"
            /\ u.state = "awaiting" =>
                   \/ u.clearinghouse = "pending"
                   \/ u.clearinghouse = "ok" /\ fundingCall.state = "awaiting"
            /\ u.state = "resolved" =>
                   /\ \A i \in 1..Len(u.result) :
                          /\ u.result[i].size > 0
                          /\ u.result[i].side \in {"LONG", "SHORT"}
                          /\ u.fundingFailed =>
                                 /\ u.result[i].fundingRate = RZero
                                 /\ u.result[i].fundingRateAnnualized = RZero
                   /\ Len(u.result) =
                          IF "assetPositions" \in DOMAIN u.response
                          THEN Cardinality({i \in 1..Len(u.response.assetPositions) :
                                               u.response.assetPositions[i].szi # 0})
                          ELSE 0

\* The funding fetch failed, the clearinghouse answered with an open and a
\* closed position: the open one is returned, without funding.
C27_Witness ==
    /\ userCall.state = "resolved"
    /\ userCall.fundingFailed
    /\ Len(userCall.response.assetPositions) = 2
    /\ Len(userCall.result) = 1
    /\ userCall.result[1].side = "SHORT"
    /\ userCall.result[1].fundingRateAnnualized = RZero

\* The calls of the log that are e.
Calls(e) == {i \in 1..Len(log) : log[i] = e}

\* The calls of the log of one kind.
CallsOf(kind) == {i \in 1..Len(log) : log[i][1] = kind}

\* The command has fetched prices or analysed.
Worked == CallsOf("analyze") # {} \/ Calls(<<"fetch", "prices">>) # {}
                                   \/ Calls(<<"fetch", "marks">>) # {}

\* C28: in check, greeks and hedge an error raised after the spinner started
\* ends the log with stop('Failed'), an error outro and exit(1), in this
\* order, and exit(1) is reached in no other way; a command without
\* positions (hedge: neither reserves nor hedge positions) stops with 'No
\* positions found' before any price fetch or analysis and does not exit; a
\* successful command ends with its outro and does not exit.
C28_CommandEndings ==
    LET n == Len(log)
        failed == Calls(<<"spinner.stop", "Failed">>)
        exits == CallsOf("exit")
        empty == Calls(<<"spinner.stop", "No positions found">>)
    IN  /\ (cmdPc = "exited" /\ CallsOf("spinner.start") # {})
              => /\ n >= 5
                 /\ failed = {n - 2}
                 /\ log[n - 1][1] = "outro"
                 /\ log[n - 1][2] # "Stay sharp!" /\ log[n - 1][2] # "no positions"
                 /\ exits = {n}
                 /\ CallsOf("outro") = {n - 1}
        /\ exits # {} => cmdPc = "exited" /\ failed # {}
        /\ failed # {} => exits # {}
        /\ cmdPc = "done"
              => /\ exits = {} /\ CallsOf("validator.exit") = {}
                 /\ log[n][1] = "outro" /\ CallsOf("outro") = {n}
                 /\ empty # {} <=> noPositions(command, fetched.aave, fetched.hyperliquid)
                 /\ empty # {} => ~Worked /\ empty = {n - 1}
                 /\ empty = {}
                       => /\ log[n] = <<"outro", "Stay sharp!">>
                          /\ CallsOf("analyze") = {n - 3}
                          /\ Calls(<<"fetch", "prices">>) # {}
        /\ cmdPc \notin {"done", "exited"} => exits = {} /\ CallsOf("outro") = {}

\* The hedge command failed on a thrown value that is no Error, after the
\* reserves had come back empty.
C28_Witness ==
    /\ cmdPc = "exited" /\ command = "hedge"
    /\ Calls(<<"fetch", "hyperliquid">>) # {}
    /\ fetched.aave = 0
    /\ log[Len(log) - 1] = <<"outro", "An unknown error occurred">>
    /\ log[Len(log)] = <<"exit", "1">>


\* The hedge notionals, + for LONG and - for SHORT.
SignedNotional ==
    SumSeq([i \in 1..Len(hyperliquidPositions) |->
        IF hyperliquidPositions[i].side = "LONG"
        THEN hyperliquidPositions[i].notionalValue
        ELSE IF hyperliquidPositions[i].side = "SHORT"
             THEN 0 - hyperliquidPositions[i].notionalValue
             ELSE 0])

\* No two hedge positions are of one coin.
UniqueCoins ==
    \A i, j \in 1..Len(hyperliquidPositions) :
        hyperliquidPositions[i].coin = hyperliquidPositions[j].coin => i = j

\* C29: every lending row is counted in exactly one record: the lending net
\* values of the records add up to totals.aaveEquityUSD, and with unique hedge
\* coins totals.netExposureUSD is aaveEquityUSD plus the signed notionals.
C29_RowsCountedOnce ==
    Done =>
        /\ SumSeq([i \in 1..Len(hedgeAnalysis.byAsset) |->
                hedgeAnalysis.byAsset[i].aaveExposure.netUSD])
              = hedgeAnalysis.totals.aaveEquityUSD
        /\ hedgeAnalysis.totals.aaveEquityUSD = EquityUSD
        /\ UniqueCoins
              => hedgeAnalysis.totals.netExposureUSD = EquityUSD + SignedNotional

\* HedgeAnalyzer.analyze on the lending list of the greeks command.
LendingHedgeAnalysis == analyze(aavePositions, <<>>, prices)

\* C30: on one lending list the three calculators agree: totalDeltaUSD =
\* netValueUSD = totals.aaveEquityUSD, aaveNetAPY = netAPY, and
\* theta.yearlyNet x 100 = netAPY x netValueUSD.
C30_CalculatorsAgree ==
    GreeksDone =>
        /\ greeks.delta.totalDeltaUSD = analysis.netValueUSD
        /\ analysis.netValueUSD = LendingHedgeAnalysis.totals.aaveEquityUSD
        /\ LendingHedgeAnalysis.aaveNetAPY = analysis.netAPY
        /\ RMul(greeks.theta.yearlyNet, RInt(100))
              = RMul(analysis.netAPY, RInt(analysis.netValueUSD))

\* C30, amended: the net values and the net APYs agree on every lending list;
\* theta.yearlyNet x 100 = netAPY x netValueUSD where netValueUSD is not 0,
\* and where it is 0 both net APYs are 0 whatever the yearly interest.
C30_CalculatorsAgreeOnEquity ==
    GreeksDone =>
        /\ greeks.delta.totalDeltaUSD = analysis.netValueUSD
        /\ analysis.netValueUSD = LendingHedgeAnalysis.totals.aaveEquityUSD
        /\ LendingHedgeAnalysis.aaveNetAPY = analysis.netAPY
        /\ analysis.netValueUSD # 0
              => RMul(greeks.theta.yearlyNet, RInt(100))
                   = RMul(analysis.netAPY, RInt(analysis.netValueUSD))
        /\ analysis.netValueUSD = 0 => analysis.netAPY = RZero

\* Two rows with debt, a net value and a yearly interest that are not 0.
C30_Witness ==
    /\ GreeksDone
    /\ Len(aavePositions) >= 2
    /\ analysis.netValueUSD # 0
    /\ analysis.totalBorrowedUSD > 0
    /\ greeks.theta.yearlyNet # RZero

=============================================================================
